---------------------------- MODULE Spec2Model ----------------------------
(***************************************************************************)
(* Verification model of vdb-benchmarks (xaynetwork/vdb-benchmarks).       *)
(*                                                                         *)
(* The repository is a set of loosely coupled components.  Each component  *)
(* is modelled as a state machine over its own variables; a specification  *)
(* per component (SpecIds, SpecLabel, ...) runs that component while the   *)
(* other components stay in their idle state.  Spec is the union: it       *)
(* starts one of the components.                                           *)
(***************************************************************************)
EXTENDS Integers, Sequences, FiniteSets, TLC

VARIABLES
    \* ---- distribution/ids.rs
    idsPc,      \* "idle" | "start" | "encoded" | "decoded"
    index,      \* the u64 index, as four 16-bit big-endian limbs
    uuid,       \* the 16 bytes of the fake uuid
    decoded,    \* the u64 that fake_uuid_to_index returned (limbs)
    \* ---- distribution/label.rs
    labPc,      \* "idle" | "config" | "rejected" | "ctor_panicked" | "ready"
                \* | "sampling" | "returned" | "panicked"
    population,     \* LabelPopulationSerdeProxy.population
    propChoices,    \* property_count_distribution.nr_choices()
    inclChoices,    \* filters.include_count_distribution.nr_choices()
    exclChoices,    \* filters.exclude_count_distribution.nr_choices()
    labKind,        \* which sampler runs: "none" | "unique" | "labels" | "filter"
    wanted,         \* n of the running sample_n_unique call
    labels,         \* the Vec<Label> being filled by sample_n_unique
    nrInclude,      \* the include count drawn by the filter sampler
    nrExclude,      \* the exclude count drawn by the filter sampler
    include,        \* Filter.include of the returned filter
    exclude,        \* Filter.exclude of the returned filter
    \* ---- distribution/range.rs
    rPc,        \* "idle" | "config" | "rejected" | "ready" | "underflow"
                \* | "overflow" | "done"
    rBuilder,   \* the RangeDistributionBuilder: [kind, mean, std]
    rMin,       \* range_min
    rMax,       \* range_max
    point,      \* the f64 point of the running normal sample, in 1/Scale
    spin,       \* parity of the loop iterations of the running sample
    rOut,       \* the u64 the sample returned
    \* ---- distribution/date.rs
    dPc,        \* "idle" | "config" | "rejected" | "ready" | "dated"
                \* | "filtered"
    dMin,       \* DatePopulationSerdeProxy.min, epoch seconds
    dMax,       \* DatePopulationSerdeProxy.max, epoch seconds
    dSample,    \* builder of sample_distribution
    dLower,     \* builder of filters.lower_bound_sample_distribution
    dUpper,     \* builder of filters.upper_bound_sample_distribution
    pubDate,    \* the sampled publication date
    hasLower,   \* the draw of filters.has_lower_bound
    hasUpper,   \* the draw of filters.has_upper_bound
    sampledLower,   \* lower_bound before the swap, <<>> for None
    sampledUpper,   \* upper_bound before the swap, <<>> for None
    lowerBound,     \* Filter.lower_bound, <<>> for None
    upperBound,     \* Filter.upper_bound, <<>> for None
    \* ---- distribution/range.rs, Percentage
    pPc,        \* "idle" | "input" | "parsed"
    pStr,       \* the deserialized string, a sequence of characters
    pRes,       \* the result: [ok, num, den], Ok(Percentage(num / den)) or Err
    \* ---- distribution.rs, bin/generate-payloads.rs: two runs of the
    \* payload generation, each a function of the run
    gPc,        \* "idle" | "loaded" | "generating"
    gSeed,      \* the seed of the loaded configuration (rng.seed)
    gCalls,     \* the sample_*_payload calls the run makes, in order
    gRng,       \* the state of the StdRng from create_rng
    gOut,       \* the payloads generated so far, in order
    \* ---- benchmarks/query_throughput.rs: bench, one trial
    bPc,        \* "idle" | "configured" | "trial" | "spawning" | "joining" |
                \* "iterated" | "panicked" | "awaiting_writer" | "done"
    qparams,    \* [number_of_tasks, queries_per_task, use_filters]
    pool,       \* inputs.vectors.len(), the number of test queries
    bIter,      \* benchmark iterations completed
    bSpawned,   \* workers spawned by the running iteration
    wPc,        \* per worker: "absent" | "running" | "querying" |
                \* "finished" | "failed" | "joined"
    wIssued,    \* per worker: queries issued in the running iteration
    wReturned,  \* per worker: queries that returned in the running iteration
    wQuery,     \* per worker: the query awaited, [vector, payload], or <<>>
    dbQueries,  \* queries the database received in the trial
    recallSent, \* messages sent on the recall channel: [adds, writes]
    recallChan, \* the messages in the recall channel, oldest first
    receiverOpen, \* recall_receiver is neither closed nor dropped
    sendersAlive, \* recall_sender (owned by the benchmark closure) lives
    writerPc,   \* writer_task: "unspawned" | "spawned" | "receiving" | "ended"
    recall_data, \* writer_task's buffer of (query_id, decoded indices)
    recallFile, \* recall_data.jsonl: [exists, lines]
    recallHistory, \* history: every message sent on the recall channel, in order
    okQueries,  \* history: per iteration, how often each query index returned Ok
    \* ---- docker.rs: parse_mem_current_max on one input
    mPc,        \* "idle" | "start" | "parsed"
    mParts,     \* how the input was put together: [pad, number, unit, tail]
    mInput,     \* the input string, a sequence of characters
    mDivide,    \* divide_by, as powers of 2 and 5: [e2, e5]
    mRes,       \* the result: [ok, neg, m, e2, e5], Ok(m * 2^e2 * 5^e5) or Err
    \* ---- docker.rs: DockerStatScanner, its scan task and the docker process
    scanner,    \* the DockerStatScanner value: "none" | "held" | "stopping" |
                \* "returned" | "dropped"
    scanPc,     \* the scan task: "none" | "spawned" | "reading" | "ended"
    scanResult, \* what the task returned: "none" | "ok" | "err"
    child,      \* the docker stats process: "unspawned" | "running" |
                \* "exited" | "killed"
    stopCh,     \* the oneshot channel: "open" | "sent" | "closed"
    stats,      \* the task's DockerStats
    scLine,     \* the line read last
    scTick,     \* parity of the number of lines read
    scReturned, \* results stop() has returned: a sequence of "ok" / "err"
    \* ---- bin/stats.rs: calculate_stats on one recorded entry
    calcPc,     \* "idle" | "start" | "scored" | "panicked"
    expected_hits,  \* Header.expected_hits of recall_data.jsonl
    entry,      \* the recorded entry: [idx, got_neighbors]
    scored,     \* what the Welford accumulators were fed: [precision, recall]
    \* ---- resources.rs, bin/stats.rs: the report files of one bench
    \* directory, the trials writing them and two stats passes
    files,      \* per file name: [exists, content], content a sequence of lines
    fsLast,     \* the last file operation: [op, name, ok, tick]
    passPc,     \* per stats pass: "idle" | "computed" | "done" | "failed"
    passStats,  \* per stats pass: the stats it computed, or <<>>
    \* ---- math.rs: one WelfordOnlineAlgorithm and the values fed to it
    wfInputs,   \* the values to feed, in order (exact quotients)
    wfFed,      \* how many of them update() has been called with
    wf,         \* the accumulator: [count, mean, m2]
    \* ---- math.rs, docker.rs, bin/stats.rs: one multiset of samples folded
    \* into an aggregate in two orders of delivery
    delivered,  \* per order: the samples in the order they are folded in
    folded,     \* how many samples each aggregate has been updated with
    aggregate,  \* per order: [max, min, dist, exact], dist the f64
                \* accumulator and exact the same fold without rounding
    \* ---- databases/*.rs: one query of one backend adapter
    adPc,       \* "idle" | "awaiting" | "answered"
    adBackend,  \* the adapter: "elasticsearch" | "qdrant" | "vespa"
    adK,        \* k, the number of hits asked for
    adResponse, \* the response of the backend: [hits, total_count]
    adAnswer,   \* what query returned: [ok, ids]
    \* ---- bin/stats.rs: the report of one bench directory
    repPc,      \* "idle" | "start" | "loaded" | "cpu_printed" | "done"
    repSnapshots,   \* the snapshots the scanner of the trial folded in
    repFile,    \* docker_stats.json: [exists, stats]
    repCalls,   \* history: the count of each accumulator that
                \* sample_variance was evaluated on
    repPrinted, \* the sample variances behind the printed deviations
    \* ---- databases/vespa.rs: yql_build_query on one query
    yqlPc,      \* "idle" | "start" | "built"
    yqlInput,   \* the arguments: [k, ef, return_payload, use_filter, payload]
    yql,        \* the query string, as the sequence of its pieces
    \* ---- benchmarks/query_throughput.rs: benchmark, the trials of one session
    sesPc,      \* "idle" | "between" | "running" | "measured" |
                \* "awaiting_writer" | "complete" | "failed" | "panicked"
    sesTrial,   \* the number of the trial bench was last called for, from 1
    sesFiles,   \* the files under query_throughput/: pairs <<bench_id, name>>
    sesWriter,  \* writer_task: "none" | "spawned" | "receiving" | "ok" | "err"
    sesFailedOn, \* the file whose write ended the session, <<>> if none
    \* ---- distribution/ingestion.rs: ingest_database
    ingPc,      \* "idle" | "start" | "loading" | "loaded" | "ingesting" |
                \* "finished" | "returned" | "failed"
    ingDocs,    \* nr_documents of the dataset
    ingNeeds,   \* what initialize answered: "unknown" | "yes" | "no"
    ingNext,    \* the index the enumerated iterator yields next
    ingCalls,   \* the calls made on the database and the write of times.json,
                \* in order: [op, batch, ok]
    \* ---- resources.rs: ResourceWriter::new on the scopes of a report directory
    rdEntries,  \* per scope, the names of the run directories in it
    rdRuns,     \* per scope, the calls of ResourceWriter::new made
    rdLast      \* per scope, what the last call returned: [ok, name]

idsVars == <<idsPc, index, uuid, decoded>>

labVars == <<labPc, population, propChoices, inclChoices, exclChoices, labKind,
             wanted, labels, nrInclude, nrExclude, include, exclude>>

rngVars == <<rPc, rBuilder, rMin, rMax, point, spin, rOut>>

dateVars == <<dPc, dMin, dMax, dSample, dLower, dUpper, pubDate, hasLower,
              hasUpper, sampledLower, sampledUpper, lowerBound, upperBound>>

pctVars == <<pPc, pStr, pRes>>

genVars == <<gPc, gSeed, gCalls, gRng, gOut>>

recallVars == <<recallChan, receiverOpen, sendersAlive, writerPc, recall_data,
                recallFile, recallHistory>>

benchVars == <<bPc, qparams, pool, bIter, bSpawned, wPc, wIssued, wReturned,
               wQuery, dbQueries, recallSent, recallVars, okQueries>>

memVars == <<mPc, mParts, mInput, mDivide, mRes>>

scanVars == <<scanner, scanPc, scanResult, child, stopCh, stats, scLine, scTick,
              scReturned>>

scoreVars == <<calcPc, expected_hits, entry, scored>>

fsVars == <<files, fsLast, passPc, passStats>>

wfVars == <<wfInputs, wfFed, wf>>

foldVars == <<delivered, folded, aggregate>>

adapterVars == <<adPc, adBackend, adK, adResponse, adAnswer>>

reportVars == <<repPc, repSnapshots, repFile, repCalls, repPrinted>>

yqlVars == <<yqlPc, yqlInput, yql>>

sessionVars == <<sesPc, sesTrial, sesFiles, sesWriter, sesFailedOn>>

ingestVars == <<ingPc, ingDocs, ingNeeds, ingNext, ingCalls>>

runDirVars == <<rdEntries, rdRuns, rdLast>>

vars == <<runDirVars, ingestVars, sessionVars, yqlVars, reportVars, adapterVars, foldVars, wfVars, fsVars, scoreVars, idsVars, labVars, rngVars, dateVars, pctVars, genVars, benchVars,
          memVars, scanVars>>

\* What each component leaves alone: the variables of the others.
idsOthers == <<runDirVars, ingestVars, sessionVars, yqlVars, reportVars, adapterVars, foldVars, wfVars, fsVars, scoreVars, scanVars, memVars, benchVars, genVars, labVars, rngVars, dateVars, pctVars>>

labOthers == <<runDirVars, ingestVars, sessionVars, yqlVars, reportVars, adapterVars, foldVars, wfVars, fsVars, scoreVars, scanVars, memVars, benchVars, genVars, idsVars, rngVars, dateVars, pctVars>>

rngOthers == <<runDirVars, ingestVars, sessionVars, yqlVars, reportVars, adapterVars, foldVars, wfVars, fsVars, scoreVars, scanVars, memVars, benchVars, genVars, idsVars, labVars, dateVars, pctVars>>

dateOthers == <<runDirVars, ingestVars, sessionVars, yqlVars, reportVars, adapterVars, foldVars, wfVars, fsVars, scoreVars, scanVars, memVars, benchVars, genVars, idsVars, labVars, rngVars, pctVars>>

pctOthers == <<runDirVars, ingestVars, sessionVars, yqlVars, reportVars, adapterVars, foldVars, wfVars, fsVars, scoreVars, scanVars, memVars, benchVars, genVars, idsVars, labVars, rngVars, dateVars>>

genOthers == <<runDirVars, ingestVars, sessionVars, yqlVars, reportVars, adapterVars, foldVars, wfVars, fsVars, scoreVars, scanVars, memVars, benchVars, idsVars, labVars, rngVars, dateVars, pctVars>>

benchOthers == <<runDirVars, ingestVars, sessionVars, yqlVars, reportVars, adapterVars, foldVars, wfVars, fsVars, scoreVars, scanVars, memVars, idsVars, labVars, rngVars, dateVars, pctVars, genVars>>

memOthers == <<runDirVars, ingestVars, sessionVars, yqlVars, reportVars, adapterVars, foldVars, wfVars, fsVars, scoreVars, scanVars, idsVars, labVars, rngVars, dateVars, pctVars, genVars,
               benchVars>>

scanOthers == <<runDirVars, ingestVars, sessionVars, yqlVars, reportVars, adapterVars, foldVars, wfVars, fsVars, scoreVars, idsVars, labVars, rngVars, dateVars, pctVars, genVars, benchVars,
                memVars>>

scoreOthers == <<runDirVars, ingestVars, sessionVars, yqlVars, reportVars, adapterVars, foldVars, wfVars, fsVars, idsVars, labVars, rngVars, dateVars, pctVars, genVars, benchVars, memVars, scanVars>>

filesOthers == <<runDirVars, ingestVars, sessionVars, yqlVars, reportVars, adapterVars, foldVars, wfVars, idsVars, labVars, rngVars, dateVars, pctVars, genVars, benchVars, memVars, scanVars, scoreVars>>

welfordOthers == <<runDirVars, ingestVars, sessionVars, yqlVars, reportVars, adapterVars, foldVars, idsVars, labVars, rngVars, dateVars, pctVars, genVars, benchVars, memVars, scanVars, scoreVars, fsVars>>

foldOthers == <<runDirVars, ingestVars, sessionVars, yqlVars, reportVars, adapterVars, idsVars, labVars, rngVars, dateVars, pctVars, genVars, benchVars, memVars, scanVars, scoreVars, fsVars, wfVars>>

adapterOthers == <<runDirVars, ingestVars, sessionVars, yqlVars, reportVars, idsVars, labVars, rngVars, dateVars, pctVars, genVars, benchVars, memVars, scanVars, scoreVars, fsVars, wfVars, foldVars>>

reportOthers == <<runDirVars, ingestVars, sessionVars, yqlVars, idsVars, labVars, rngVars, dateVars, pctVars, genVars, benchVars, memVars, scanVars, scoreVars, fsVars, wfVars, foldVars, adapterVars>>

yqlOthers == <<runDirVars, ingestVars, sessionVars, idsVars, labVars, rngVars, dateVars, pctVars, genVars, benchVars, memVars, scanVars, scoreVars, fsVars, wfVars, foldVars, adapterVars, reportVars>>

sessionOthers == <<runDirVars, ingestVars, idsVars, labVars, rngVars, dateVars, pctVars, genVars, benchVars, memVars, scanVars, scoreVars, fsVars, wfVars, foldVars, adapterVars, reportVars, yqlVars>>

ingestOthers == <<runDirVars, idsVars, labVars, rngVars, dateVars, pctVars, genVars, benchVars, memVars, scanVars, scoreVars, fsVars, wfVars, foldVars, adapterVars, reportVars, yqlVars, sessionVars>>

rundirOthers == <<idsVars, labVars, rngVars, dateVars, pctVars, genVars, benchVars, memVars, scanVars, scoreVars, fsVars, wfVars, foldVars, adapterVars, reportVars, yqlVars, sessionVars, ingestVars>>

(***************************************************************************)
(* Generic helpers.                                                        *)
(***************************************************************************)
Min(a, b) == IF a <= b THEN a ELSE b

Max(a, b) == IF a >= b THEN a ELSE b

Range(s) == {s[i] : i \in 1..Len(s)}

NoDuplicates(s) == \A i, j \in 1..Len(s) : i # j => s[i] # s[j]

(***************************************************************************)
(* distribution/ids.rs: index <-> fake uuid.                               *)
(*                                                                         *)
(* A u64 does not fit TLC's integers, so it is held as four 16-bit limbs,  *)
(* most significant first.  Bytes are integers in 0..255.                  *)
(***************************************************************************)
ByteBase == 256

\* Limb values the inputs are drawn from: they make 0, 1, 2^54-1, 2^54 (the
\* unit test's values) and indices with a non-zero top byte.
LimbValues == {0, 1, 63, 64, 255, 256, 65535}

U64Zero == <<0, 0, 0, 0>>

\* u64::to_be_bytes
to_be_bytes(id) ==
    [k \in 1..8 |->
        LET limb == id[(k + 1) \div 2]
        IN  IF k % 2 = 1 THEN limb \div ByteBase ELSE limb % ByteBase]

\* u64::from_be_bytes
from_be_bytes(bytes) ==
    [l \in 1..4 |-> bytes[2 * l - 1] * ByteBase + bytes[2 * l]]

\* uuid::Builder::from_random_bytes(bytes).into_uuid(): stamps the version
\* nibble (4) into byte 6 and the RFC 4122 variant bits (10) into byte 8.
\* Byte k of the uuid (0-based) is element k + 1 here.
from_random_bytes(bytes) ==
    [k \in 1..16 |->
        CASE k = 7 -> (bytes[k] % 16) + 64
          [] k = 9 -> (bytes[k] % 64) + 128
          [] OTHER -> bytes[k]]

\* iter::repeat(id.to_be_bytes()).flatten().enumerate().take(16)
index_to_fake_uuid(id) ==
    LET be    == to_be_bytes(id)
        bytes == [k \in 1..16 |-> be[((k - 1) % 8) + 1]]
    IN  from_random_bytes(bytes)

\* A decoder that forgets to clear the byte holding the variant flags.
fake_uuid_to_index_keeps_flags(u) ==
    from_be_bytes([k \in 1..8 |-> u[8 + k]])

\* uuid.as_bytes()[8..], bytes[0] = 0, u64::from_be_bytes
fake_uuid_to_index(u) ==
    LET tail  == [k \in 1..8 |-> u[8 + k]]
        bytes == [tail EXCEPT ![1] = 0]
    IN  from_be_bytes(bytes)

IdsIdle ==
    /\ idsPc = "idle"
    /\ index = U64Zero
    /\ uuid = <<>>
    /\ decoded = U64Zero

IdsInit ==
    /\ idsPc = "start"
    /\ index \in [1..4 -> LimbValues]
    /\ uuid = <<>>
    /\ decoded = U64Zero

Encode ==
    /\ idsPc = "start"
    /\ uuid' = index_to_fake_uuid(index)
    /\ idsPc' = "encoded"
    /\ UNCHANGED <<index, decoded>>
    /\ UNCHANGED idsOthers

Decode ==
    /\ idsPc = "encoded"
    /\ decoded' = fake_uuid_to_index(uuid)
    /\ idsPc' = "decoded"
    /\ UNCHANGED <<index, uuid>>
    /\ UNCHANGED idsOthers

IdsNext ==
    \/ Encode
    \/ Decode

\* An index below 2^56: its most significant byte is zero.
BelowTwoPow56(id) == id[1] < ByteBase

TwoPow54 == <<64, 0, 0, 0>>

TwoPow54MinusOne == <<63, 65535, 65535, 65535>>

\* C1 as stated: every 64-bit index survives the round trip
\* fake_uuid_to_index(index_to_fake_uuid(i)) = i.
C1_RoundTripAllU64 ==
    idsPc = "decoded" => decoded = index

\* C1 amended: every index below 2^56 survives the round trip; for any
\* index the round trip returns the index with its top byte cleared.
C1_RoundTripBelowTwoPow56 ==
    idsPc = "decoded" =>
        /\ BelowTwoPow56(index) => decoded = index
        /\ decoded = [index EXCEPT ![1] = index[1] % ByteBase]

\* C1 witness: the unit test's largest value 2^54 was encoded and decoded.
C1_Witness ==
    /\ idsPc = "decoded"
    /\ index = TwoPow54
    /\ decoded = TwoPow54
    /\ uuid[9] = 128


(***************************************************************************)
(* distribution/label.rs: label populations, unique sampling, filters.     *)
(*                                                                         *)
(* Random draws are nondeterministic choices.  A population is explored    *)
(* on its first MaxPop labels, and a count distribution on the counts      *)
(* below MaxPop \div 2 and on those above the 512 limit, which fail the    *)
(* assertion before any label is drawn.                                    *)
(***************************************************************************)
MaxPop == 6

\* label.rs: "population > 1_000_000"
MaxPopulation == 1000000

\* label.rs: assert!(n <= 512)
MaxUnique == 512

\* A choice table longer than the 512 limit, and a population large enough
\* for construction to accept it.
BigChoices == MaxUnique + 2

BigPop == 4 * MaxUnique

Populations == (0..MaxPop) \cup {BigPop, MaxPopulation + 1}

\* nr_choices of an IdxChoiceDistribution: WeightedIndex::new rejects an
\* empty table, so a constructed one has at least one choice.
ChoiceTables == (1..(MaxPop \div 2)) \cup {BigChoices}

\* IdxChoiceDistribution::sample: an index in 0..nr_choices-1.
CountDraws(nr_choices) ==
    {k \in 0..(nr_choices - 1) : k < MaxPop \div 2 \/ k > MaxUnique}

\* Distribution<Label>::sample: an index in 0..population-1.
LabelDraws(pop) == 0..(Min(pop, MaxPop) - 1)

\* Vec::contains
contains(vec, x) == x \in Range(vec)

\* A loop body that pushes without the duplicate check.
sample_n_unique_step_no_check(vec, label) == Append(vec, label)

\* The body of the rejection loop: `continue` on a duplicate, else push.
sample_n_unique_step(vec, label) ==
    IF contains(vec, label) THEN vec ELSE Append(vec, label)

\* The two sanity assertions at the head of sample_n_unique.
sample_n_unique_asserts(n, pop) ==
    /\ n <= pop \div 2
    /\ n <= MaxUnique

\* A split that keeps the element at the split point on both sides.
split_off_overlapping(vec, at) ==
    IF at = 0 THEN vec ELSE SubSeq(vec, at, Len(vec))

\* Vec::split_off(at): the elements from position at (0-based) on.
split_off(vec, at) == SubSeq(vec, at + 1, Len(vec))

\* What is left in the vector after split_off(at).
split_keep(vec, at) == SubSeq(vec, 1, at)

\* TryFrom<LabelPopulationSerdeProxy>: "rejected" is the bail!, and
\* "ctor_panicked" the unwrap of WeightedAliasIndex::new on no weights.
try_from_outcome(pop, prop, incl, excl) ==
    IF pop > MaxPopulation THEN "rejected"
    ELSE IF pop = 0 THEN "ctor_panicked"
    ELSE IF prop > pop \div 2 THEN "rejected"
    ELSE IF excl + incl > pop \div 2 THEN "rejected"
    ELSE "ready"

LabIdle ==
    /\ labPc = "idle"
    /\ population = 0
    /\ propChoices = 0
    /\ inclChoices = 0
    /\ exclChoices = 0
    /\ labKind = "none"
    /\ wanted = 0
    /\ labels = <<>>
    /\ nrInclude = 0
    /\ nrExclude = 0
    /\ include = <<>>
    /\ exclude = <<>>

\* A deserialized LabelPopulationSerdeProxy, before try_from.
LabInit ==
    /\ labPc = "config"
    /\ population \in Populations
    /\ propChoices \in ChoiceTables
    /\ inclChoices \in ChoiceTables
    /\ exclChoices \in ChoiceTables
    /\ labKind = "none"
    /\ wanted = 0
    /\ labels = <<>>
    /\ nrInclude = 0
    /\ nrExclude = 0
    /\ include = <<>>
    /\ exclude = <<>>

\* A Population taken as given, for calls of sample_n_unique itself.
UniqueInit ==
    /\ labPc = "ready"
    /\ population \in (1..MaxPop) \cup {BigPop}
    /\ propChoices = 1
    /\ inclChoices = 1
    /\ exclChoices = 1
    /\ labKind = "none"
    /\ wanted = 0
    /\ labels = <<>>
    /\ nrInclude = 0
    /\ nrExclude = 0
    /\ include = <<>>
    /\ exclude = <<>>

Construct ==
    /\ labPc = "config"
    /\ labPc' = try_from_outcome(population, propChoices, inclChoices, exclChoices)
    /\ UNCHANGED <<population, propChoices, inclChoices, exclChoices, labKind,
                   wanted, labels, nrInclude, nrExclude, include, exclude>>
    /\ UNCHANGED labOthers

\* Entry of sample_n_unique(n): the assertions, then the empty vector.
EnterSampleNUnique(kind, n) ==
    /\ labKind' = kind
    /\ wanted' = n
    /\ labels' = <<>>
    /\ labPc' = IF sample_n_unique_asserts(n, population)
                THEN "sampling" ELSE "panicked"

\* A direct call sample_n_unique(n).
CallSampleNUnique ==
    /\ labPc = "ready"
    /\ \E n \in (0..MaxPop) \cup {MaxUnique + 1} :
           EnterSampleNUnique("unique", n)
    /\ UNCHANGED <<population, propChoices, inclChoices, exclChoices,
                   nrInclude, nrExclude, include, exclude>>
    /\ UNCHANGED labOthers

\* Distribution<Labels>::sample: draw the count, call sample_n_unique.
SampleLabels ==
    /\ labPc = "ready"
    /\ \E n \in CountDraws(propChoices) : EnterSampleNUnique("labels", n)
    /\ UNCHANGED <<population, propChoices, inclChoices, exclChoices,
                   nrInclude, nrExclude, include, exclude>>
    /\ UNCHANGED labOthers

\* Distribution<Filter>::sample: draw both counts, call sample_n_unique.
SampleFilter ==
    /\ labPc = "ready"
    /\ \E ni \in CountDraws(inclChoices), ne \in CountDraws(exclChoices) :
           /\ nrInclude' = ni
           /\ nrExclude' = ne
           /\ EnterSampleNUnique("filter", ni + ne)
    /\ UNCHANGED <<population, propChoices, inclChoices, exclChoices,
                   include, exclude>>
    /\ UNCHANGED labOthers

\* One iteration of `while labels.len() < n` with the label l drawn.
DrawLabel(l) ==
    /\ labPc = "sampling"
    /\ Len(labels) < wanted
    /\ l \in LabelDraws(population)
    /\ labels' = sample_n_unique_step(labels, l)
    /\ UNCHANGED <<labPc, population, propChoices, inclChoices, exclChoices,
                   labKind, wanted, nrInclude, nrExclude, include, exclude>>
    /\ UNCHANGED labOthers

\* The loop condition fails: sample_n_unique returns; the filter sampler
\* then splits the vector at nr_include.
ReturnSample ==
    /\ labPc = "sampling"
    /\ ~(Len(labels) < wanted)
    /\ labPc' = "returned"
    /\ IF labKind = "filter"
       THEN /\ include' = split_keep(labels, nrInclude)
            /\ exclude' = split_off(labels, nrInclude)
       ELSE UNCHANGED <<include, exclude>>
    /\ UNCHANGED <<population, propChoices, inclChoices, exclChoices, labKind,
                   wanted, labels, nrInclude, nrExclude>>
    /\ UNCHANGED labOthers

LabNext ==
    \/ Construct
    \/ SampleLabels
    \/ SampleFilter
    \/ \E l \in 0..(MaxPop - 1) : DrawLabel(l)
    \/ ReturnSample

UniqueNext ==
    \/ CallSampleNUnique
    \/ \E l \in 0..(MaxPop - 1) : DrawLabel(l)
    \/ ReturnSample

\* Every label of the population has a positive weight, so a label that
\* can end the wait for a fresh one is eventually drawn.
UniqueFairness ==
    /\ \A l \in 0..(MaxPop - 1) : WF_vars(DrawLabel(l))
    /\ WF_vars(ReturnSample)

\* The labels a returned sample_n_unique call hands back are exactly the
\* requested number, pairwise distinct and inside the population.
UniqueResultOk ==
    /\ Len(labels) = wanted
    /\ NoDuplicates(labels)
    /\ \A i \in 1..Len(labels) : labels[i] \in 0..(population - 1)

\* C2: sample_n_unique(n) with n <= P/2 and n <= 512 terminates under fair
\* draws and returns exactly n pairwise distinct labels, each in [0, P); a
\* call with n > P/2 or n > 512 fails the assertion and never enters the
\* rejection loop.
C2_SampleNUnique ==
    /\ [](labPc = "returned" => UniqueResultOk)
    /\ [](labKind = "unique" =>
            IF sample_n_unique_asserts(wanted, population)
            THEN labPc \in {"sampling", "returned"}
            ELSE labPc = "panicked" /\ labels = <<>>)
    /\ (labPc = "sampling" ~> labPc = "returned")

\* C2 witness: a call that asked for half the population (at least two
\* labels) has returned.
C2_Witness ==
    /\ labPc = "returned"
    /\ labKind = "unique"
    /\ wanted >= 2
    /\ wanted = population \div 2
    /\ Len(labels) = wanted

\* C3: a sampled label filter has include of length nr_include and exclude
\* of length nr_exclude, no duplicate inside either list and no label in
\* both lists.
C3_FilterSplit ==
    (labPc = "returned" /\ labKind = "filter") =>
        /\ Len(include) = nrInclude
        /\ Len(exclude) = nrExclude
        /\ NoDuplicates(include)
        /\ NoDuplicates(exclude)
        /\ Range(include) \cap Range(exclude) = {}

\* C3 witness: a filter with two include and two exclude labels returned.
C3_Witness ==
    /\ labPc = "returned"
    /\ labKind = "filter"
    /\ nrInclude = 2
    /\ nrExclude = 2
    /\ Len(include) = 2
    /\ Len(exclude) = 2

\* C5 as stated: after a successful construction every document-label or
\* filter sample requests at most population/2 and at most 512 labels, so
\* the assertions of sample_n_unique never fail.
C5_BudgetCaughtAtConstruction ==
    labKind \in {"labels", "filter"} =>
        /\ wanted <= population \div 2
        /\ wanted <= MaxUnique
        /\ labPc # "panicked"

(***************************************************************************)
(* distribution/range.rs: uniform and normal range samplers.               *)
(*                                                                         *)
(* A percentage is held as a whole number of percent, and every f64 of     *)
(* the normal sampler (mean, range_len, point) in units of 1/Scale, which  *)
(* makes range_len * percentage exact.  The raw normal draw, rounded, is   *)
(* any whole number; the model draws it within MaxDev of the range.        *)
(***************************************************************************)
Scale == 100

MaxTime == 3

MaxDev == 3

\* Percentages the configurations are drawn from (Percentage, in percent).
Percents == {0, 25, 50, 100}

UniformBuilder == [kind |-> "uniform", mean |-> 0, std |-> 0]

\* RangeDistributionBuilder: Uniform | Normal { mean, std }.
RangeBuilders ==
    {UniformBuilder} \cup [kind : {"normal"}, mean : Percents, std : Percents]

\* RangeDistributionBuilder::build: the bail! on range_min >= range_max.
build_ok(range_min, range_max) == ~(range_min >= range_max)

\* range_len = (range_max - range_min) as f64, in 1/Scale.
range_len(range_min, range_max) == (range_max - range_min) * Scale

\* mean = range_len * mean.0, in 1/Scale.
normal_mean(range_min, range_max, b) == (range_max - range_min) * b.mean

\* std2 = (range_len * std.0).powi(2), the second argument of Normal::new,
\* in 1/Scale^2.
normal_std2(range_min, range_max, b) ==
    ((range_max - range_min) * b.std) * ((range_max - range_min) * b.std)

\* f64::round of a non-negative value held in 1/Scale: half away from zero.
round_nonneg(x) == ((x + Scale \div 2) \div Scale) * Scale

\* distribution.sample(rng).round(): with a zero deviation the draw is the
\* mean itself, otherwise any whole number.
NormalDraws(range_min, range_max, b) ==
    IF normal_std2(range_min, range_max, b) = 0
    THEN {round_nonneg(normal_mean(range_min, range_max, b))}
    ELSE {d * Scale : d \in (0 - MaxDev)..((range_max - range_min) + MaxDev)}

\* Uniform::new_inclusive(range_min, range_max).sample
UniformDraws(range_min, range_max) == range_min..range_max

\* `while point < 0.`
below_range(p) == p < 0

\* A second loop that lets the point stay one range length too high.
above_range_late(p, len) == p > 2 * len

\* `while point > *range_len`
above_range(p, len) == p > len

\* point += mean
underflow_step(p, mean) == p + mean

\* point = mean + (point - range_len)
overflow_step(p, mean, len) == mean + (p - len)

\* range_min + point as u64
range_out(range_min, p) == range_min + (p \div Scale)

RngIdle ==
    /\ rPc = "idle"
    /\ rBuilder = UniformBuilder
    /\ rMin = 0
    /\ rMax = 0
    /\ point = 0
    /\ spin = 0
    /\ rOut = 0

RngInit ==
    /\ rPc = "config"
    /\ rBuilder \in RangeBuilders
    /\ rMin \in 0..MaxTime
    /\ rMax \in 0..MaxTime
    /\ point = 0
    /\ spin = 0
    /\ rOut = 0

BuildRange ==
    /\ rPc = "config"
    /\ rPc' = IF build_ok(rMin, rMax) THEN "ready" ELSE "rejected"
    /\ UNCHANGED <<rBuilder, rMin, rMax, point, spin, rOut>>
    /\ UNCHANGED rngOthers

SampleUniform ==
    /\ rPc = "ready"
    /\ rBuilder.kind = "uniform"
    /\ \E v \in UniformDraws(rMin, rMax) : rOut' = v
    /\ rPc' = "done"
    /\ UNCHANGED <<rBuilder, rMin, rMax, point, spin>>
    /\ UNCHANGED rngOthers

\* The normal arm up to the first loop: the rounded raw draw.
SampleNormal ==
    /\ rPc = "ready"
    /\ rBuilder.kind = "normal"
    /\ \E d \in NormalDraws(rMin, rMax, rBuilder) : point' = d
    /\ rPc' = "underflow"
    /\ spin' = 0
    /\ UNCHANGED <<rBuilder, rMin, rMax, rOut>>
    /\ UNCHANGED rngOthers

\* One test of `while point < 0.`, and the body when it holds.
UnderflowLoop ==
    /\ rPc = "underflow"
    /\ IF below_range(point)
       THEN /\ point' = underflow_step(point, normal_mean(rMin, rMax, rBuilder))
            /\ spin' = 1 - spin
            /\ rPc' = "underflow"
       ELSE /\ rPc' = "overflow"
            /\ spin' = 0
            /\ point' = point
    /\ UNCHANGED <<rBuilder, rMin, rMax, rOut>>
    /\ UNCHANGED rngOthers

\* One test of `while point > range_len`, and the body when it holds; when
\* it fails the sample returns range_min + point as u64.
OverflowLoop ==
    /\ rPc = "overflow"
    /\ IF above_range(point, range_len(rMin, rMax))
       THEN /\ point' = overflow_step(point, normal_mean(rMin, rMax, rBuilder),
                                      range_len(rMin, rMax))
            /\ spin' = 1 - spin
            /\ rPc' = "overflow"
            /\ rOut' = rOut
       ELSE /\ rPc' = "done"
            /\ rOut' = range_out(rMin, point)
            /\ spin' = 0
            /\ point' = point
    /\ UNCHANGED <<rBuilder, rMin, rMax>>
    /\ UNCHANGED rngOthers

RngNext ==
    \/ BuildRange
    \/ SampleUniform
    \/ SampleNormal
    \/ UnderflowLoop
    \/ OverflowLoop

\* A running sample keeps executing: its loops are never suspended.
RngFairness ==
    /\ WF_vars(UnderflowLoop)
    /\ WF_vars(OverflowLoop)

(***************************************************************************)
(* distribution/date.rs: date populations and date filters.                *)
(*                                                                         *)
(* A date sample runs a range sampler to its end, so the sampler is used   *)
(* here as a function of its raw draw; a draw on which the loops of the    *)
(* normal sampler do not end produces no date and is left out.             *)
(***************************************************************************)
RECURSIVE reflect_underflow(_, _)
\* `while point < 0. { point += mean }`, run to its end.
reflect_underflow(p, mean) ==
    IF below_range(p) THEN reflect_underflow(underflow_step(p, mean), mean)
    ELSE p

RECURSIVE reflect_overflow(_, _, _)
\* `while point > range_len { point = mean + (point - range_len) }`, run to
\* its end.
reflect_overflow(p, mean, len) ==
    IF above_range(p, len)
    THEN reflect_overflow(overflow_step(p, mean, len), mean, len)
    ELSE p

\* Whether both loops end on the raw draw p: the first adds mean until the
\* point is no longer negative, the second takes off range_len - mean.
loops_end(p, mean, len) ==
    IF below_range(p) THEN mean > 0
    ELSE (above_range(p, len) => mean < len)

\* The raw draws of a built RangeDistribution on which sample returns.
ReturningDraws(range_min, range_max, b) ==
    IF b.kind = "uniform" THEN UniformDraws(range_min, range_max)
    ELSE {d \in NormalDraws(range_min, range_max, b) :
            loops_end(d, normal_mean(range_min, range_max, b),
                      range_len(range_min, range_max))}

\* RangeDistribution::sample as a function of the raw draw.
range_sample(range_min, range_max, b, draw) ==
    IF b.kind = "uniform" THEN draw
    ELSE LET mean == normal_mean(range_min, range_max, b)
             len  == range_len(range_min, range_max)
         IN  range_out(range_min,
                       reflect_overflow(reflect_underflow(draw, mean), mean, len))

\* DateTime::from_timestamp(timestamp.max(0) as _, 0).unwrap()
date_from_timestamp(ts) == Max(ts, 0)

\* Builders the date populations are drawn from.
DateBuilders ==
    {b \in RangeBuilders : b.kind = "uniform" \/ (b.mean \in {0, 50} /\ b.std = 25)}

\* to_u64: only non-negative epoch times are supported.
to_u64_ok(ts) == ts >= 0

\* TryFrom<DatePopulationSerdeProxy>: both bounds convert, the three
\* builders build.
date_try_from_ok(min, max) ==
    /\ to_u64_ok(min)
    /\ to_u64_ok(max)
    /\ build_ok(min, max)

\* A filter sampler that returns the bounds as drawn.
order_bounds_no_swap(lo, up) == <<lo, up>>

\* `if lower_bound > upper_bound { mem::swap(lower_bound, upper_bound) }`
\* when both are Some.
order_bounds(lo, up) ==
    IF lo # <<>> /\ up # <<>> /\ lo[1] > up[1] THEN <<up, lo>> ELSE <<lo, up>>

DateIdle ==
    /\ dPc = "idle"
    /\ dMin = 0
    /\ dMax = 0
    /\ dSample = UniformBuilder
    /\ dLower = UniformBuilder
    /\ dUpper = UniformBuilder
    /\ pubDate = 0
    /\ hasLower = FALSE
    /\ hasUpper = FALSE
    /\ sampledLower = <<>>
    /\ sampledUpper = <<>>
    /\ lowerBound = <<>>
    /\ upperBound = <<>>

DateInit ==
    /\ dPc = "config"
    /\ dMin \in (0 - 1)..MaxTime
    /\ dMax \in (0 - 1)..MaxTime
    /\ dSample \in DateBuilders
    /\ dLower \in DateBuilders
    /\ dUpper \in DateBuilders
    /\ pubDate = 0
    /\ hasLower = FALSE
    /\ hasUpper = FALSE
    /\ sampledLower = <<>>
    /\ sampledUpper = <<>>
    /\ lowerBound = <<>>
    /\ upperBound = <<>>

ConstructDates ==
    /\ dPc = "config"
    /\ dPc' = IF date_try_from_ok(dMin, dMax) THEN "ready" ELSE "rejected"
    /\ UNCHANGED <<dMin, dMax, dSample, dLower, dUpper, pubDate, hasLower,
                   hasUpper, sampledLower, sampledUpper, lowerBound, upperBound>>
    /\ UNCHANGED dateOthers

\* Distribution<DateTime<Utc>> for Population
SampleDate ==
    /\ dPc = "ready"
    /\ \E d \in ReturningDraws(dMin, dMax, dSample) :
           pubDate' = date_from_timestamp(range_sample(dMin, dMax, dSample, d))
    /\ dPc' = "dated"
    /\ UNCHANGED <<dMin, dMax, dSample, dLower, dUpper, hasLower, hasUpper,
                   sampledLower, sampledUpper, lowerBound, upperBound>>
    /\ UNCHANGED dateOthers

\* Distribution<Filter> for Population: each bound is sampled only when
\* its Bernoulli draw is true; then the swap.
SampleDateFilter ==
    /\ dPc = "ready"
    /\ \E hl, hu \in BOOLEAN :
       \E dl \in IF hl THEN ReturningDraws(dMin, dMax, dLower) ELSE {0} :
       \E du \in IF hu THEN ReturningDraws(dMin, dMax, dUpper) ELSE {0} :
           LET lo == IF hl
                     THEN <<date_from_timestamp(range_sample(dMin, dMax, dLower, dl))>>
                     ELSE <<>>
               up == IF hu
                     THEN <<date_from_timestamp(range_sample(dMin, dMax, dUpper, du))>>
                     ELSE <<>>
               ordered == order_bounds(lo, up)
           IN  /\ hasLower' = hl
               /\ hasUpper' = hu
               /\ sampledLower' = lo
               /\ sampledUpper' = up
               /\ lowerBound' = ordered[1]
               /\ upperBound' = ordered[2]
    /\ dPc' = "filtered"
    /\ UNCHANGED <<dMin, dMax, dSample, dLower, dUpper, pubDate>>
    /\ UNCHANGED dateOthers

DateNext ==
    \/ ConstructDates
    \/ SampleDate
    \/ SampleDateFilter

\* C4: a sampled date filter has lower_bound <= upper_bound whenever both
\* bounds are present, whatever the two sampled values were; a bound whose
\* Bernoulli draw was false is absent, one whose draw was true is present.
C4_DateFilterOrdered ==
    dPc = "filtered" =>
        /\ (lowerBound # <<>> /\ upperBound # <<>>) => lowerBound[1] <= upperBound[1]
        /\ (lowerBound # <<>>) <=> hasLower
        /\ (upperBound # <<>>) <=> hasUpper

\* C4 witness: the sampled lower bound was above the sampled upper bound
\* and the returned filter holds them swapped.
C4_Witness ==
    /\ dPc = "filtered"
    /\ sampledLower # <<>>
    /\ sampledUpper # <<>>
    /\ sampledLower[1] > sampledUpper[1]
    /\ lowerBound = sampledUpper
    /\ upperBound = sampledLower

\* C6 as stated: for every accepted configuration and every raw draw the
\* two reflection loops of a normal sample finish.
C6_NormalSampleTerminates ==
    (rPc \in {"underflow", "overflow"}) ~> (rPc = "done")

\* C7: every value a range sampler built for [min, max] returns, uniform
\* or normal, lies in [min, max]; hence every generated publication date
\* and every sampled filter bound lies in the configured date range.
C7_SampleInRange ==
    /\ rPc = "done" => (rMin <= rOut /\ rOut <= rMax)
    /\ dPc = "dated" => (dMin <= pubDate /\ pubDate <= dMax)
    /\ dPc = "filtered" =>
           \A b \in Range(lowerBound) \cup Range(upperBound) :
               dMin <= b /\ b <= dMax

\* C7 witness: a normal sample whose raw draw lay above the range was
\* reflected and returned.
C7_Witness ==
    /\ rPc = "done"
    /\ rBuilder.kind = "normal"
    /\ rBuilder.mean = 25
    /\ rBuilder.std > 0
    /\ point < range_len(rMin, rMax)
    /\ point % Scale # 0

(***************************************************************************)
(* distribution/range.rs: Percentage deserialization.                      *)
(*                                                                         *)
(* A string is a sequence of characters over Chars.  str::parse::<f64> is  *)
(* modelled on that alphabet: an optional '-', digits, an optional '.'     *)
(* and digits, at least one digit, nothing else.  An f64 is held as the    *)
(* fraction num / den with a sign flag.                                    *)
(***************************************************************************)
MaxLen == 4

Chars == {"0", "1", "5", ".", "-", "%", "a"}

Digits == {"0", "1", "5"}

Strings == UNION {[1..n -> Chars] : n \in 0..MaxLen}

DigitValue(c) == CASE c = "0" -> 0 [] c = "1" -> 1 [] c = "5" -> 5 [] OTHER -> 0

RECURSIVE Pow10(_)
Pow10(n) == IF n = 0 THEN 1 ELSE 10 * Pow10(n - 1)

RECURSIVE DecimalValue(_)
\* The value of a run of digits read as a decimal numeral.
DecimalValue(ds) ==
    IF ds = <<>> THEN 0
    ELSE 10 * DecimalValue(SubSeq(ds, 1, Len(ds) - 1)) + DigitValue(ds[Len(ds)])

RECURSIVE DigitRun(_)
\* The length of the longest prefix of t made of digits.
DigitRun(t) ==
    IF t # <<>> /\ t[1] \in Digits THEN 1 + DigitRun(Tail(t)) ELSE 0

ParseError == [ok |-> FALSE, neg |-> FALSE, num |-> 0, den |-> 1]

\* str::parse::<f64>: sign, integer digits, '.', fraction digits, read from
\* the left; an error when no digit was read or characters are left over.
parse_f64(t) ==
    LET neg   == t # <<>> /\ t[1] = "-"
        body  == IF neg THEN Tail(t) ELSE t
        i     == DigitRun(body)
        rest  == SubSeq(body, i + 1, Len(body))
        dot   == rest # <<>> /\ rest[1] = "."
        after == IF dot THEN Tail(rest) ELSE rest
        j     == DigitRun(after)
        left  == SubSeq(after, j + 1, Len(after))
    IN  IF left # <<>> \/ i + j = 0 THEN ParseError
        ELSE [ok  |-> TRUE,
              neg |-> neg,
              num |-> DecimalValue(SubSeq(body, 1, i) \o SubSeq(after, 1, j)),
              den |-> Pow10(j)]

\* value.ends_with('%')
ends_with_percent(value) == value # <<>> /\ value[Len(value)] = "%"

\* A range test that leaves out the upper end.
in_percent_range_exclusive(p) ==
    /\ (p.neg => p.num = 0)
    /\ p.num < 100 * p.den

\* (0. ..=100.).contains(&p); -0.0 compares equal to 0.0.
in_percent_range(p) ==
    /\ (p.neg => p.num = 0)
    /\ p.num <= 100 * p.den

\* Percentage::deserialize on the string value.
deserialize_percentage(value) ==
    IF ends_with_percent(value)
    THEN LET p == parse_f64(SubSeq(value, 1, Len(value) - 1))
         IN  IF p.ok /\ in_percent_range(p)
             THEN [ok |-> TRUE, num |-> p.num, den |-> p.den * 100]
             ELSE [ok |-> FALSE, num |-> 0, den |-> 1]
    ELSE [ok |-> FALSE, num |-> 0, den |-> 1]

PctIdle ==
    /\ pPc = "idle"
    /\ pStr = <<>>
    /\ pRes = [ok |-> FALSE, num |-> 0, den |-> 1]

PctInit ==
    /\ pPc = "input"
    /\ pStr \in Strings
    /\ pRes = [ok |-> FALSE, num |-> 0, den |-> 1]

Deserialize ==
    /\ pPc = "input"
    /\ pRes' = deserialize_percentage(pStr)
    /\ pPc' = "parsed"
    /\ UNCHANGED pStr
    /\ UNCHANGED pctOthers

PctNext ==
    \/ Deserialize

\* The reference reading of "<number>%": the string splits, at positions
\* a <= b <= c, into a sign (at most one '-'), an integer part of digits,
\* at most one '.', a fraction part of digits and the final '%', with at
\* least one digit.  The set holds the number's numerator, denominator and
\* sign for every such splitting.
PercentForms(value) ==
    LET n == Len(value) - 1
    IN  {[num |-> DecimalValue(SubSeq(value, q[1] + 1, q[2]) \o SubSeq(value, q[3] + 1, n)),
          den |-> Pow10(n - q[3]),
          neg |-> q[1] = 1] :
            q \in {t \in (0..1) \X (0..MaxLen) \X (0..MaxLen) :
                    /\ n >= 0
                    /\ value[n + 1] = "%"
                    /\ t[1] <= t[2] /\ t[2] <= t[3] /\ t[3] <= n
                    /\ t[1] = 1 => value[1] = "-"
                    /\ \A k \in (t[1] + 1)..t[2] : value[k] \in Digits
                    /\ t[3] - t[2] <= 1
                    /\ t[3] - t[2] = 1 => value[t[3]] = "."
                    /\ \A k \in (t[3] + 1)..n : value[k] \in Digits
                    /\ (t[2] - t[1]) + (n - t[3]) > 0
                    /\ (t[3] = t[2] => t[3] = n)}}

\* The reference's numbers that lie in [0, 100].
PercentFormsInRange(value) ==
    {f \in PercentForms(value) : (f.neg => f.num = 0) /\ f.num <= 100 * f.den}

\* The rejected examples of the specification: "101%", "-1%", a string
\* without digits and a number without '%'.
RejectedExamples ==
    {<<"1", "0", "1", "%">>, <<"-", "1", "%">>, <<"a", "a", "a">>, <<"1", "0">>}

\* C8: a string is accepted exactly when it is "<number>%" with the number
\* in [0, 100], and then yields number / 100; every other string is
\* rejected.
C8_PercentageParsing ==
    pPc = "parsed" =>
        /\ pRes.ok <=> PercentFormsInRange(pStr) # {}
        /\ pRes.ok =>
              \A f \in PercentFormsInRange(pStr) :
                  pRes.num * (f.den * 100) = f.num * pRes.den
        /\ pStr \in RejectedExamples => ~pRes.ok

\* C8 witness: "10%" was parsed and gave 0.10; the value is one tenth.
C8_Witness ==
    /\ pPc = "parsed"
    /\ pStr = <<"1", "0", "%">>
    /\ pRes.ok
    /\ pRes.num * 10 = pRes.den

(***************************************************************************)
(* distribution.rs, distribution/rng.rs, bin/generate-payloads.rs:         *)
(* seeded payload generation.                                              *)
(*                                                                         *)
(* StdRng is modelled as a full-period linear congruential generator over  *)
(* RngMod states.  Every sampler is the function of the generator state    *)
(* that the code computes with `rng: &mut R`: it returns the sampled       *)
(* value and the generator state it leaves behind, [val, rng].  Two runs   *)
(* of the generation are composed; each loads a configuration and makes    *)
(* its own sequence of calls.                                              *)
(***************************************************************************)
RngMod == 64

RngMul == 5

RngInc == 3

MaxSeed == 3

MaxCalls == 2

\* Alphanumeric.sample_string(rng, 32)
LinkLen == 32

\* The characters Alphanumeric draws from: a-z, A-Z, 0-9.
AlphanumericCount == 62

Runs == {1, 2}

\* The date population of the generation settings.
GenDates ==
    [min |-> 0, max |-> MaxTime,
     sample |-> [kind |-> "normal", mean |-> 50, std |-> 25],
     lower |-> UniformBuilder,
     upper |-> UniformBuilder]

\* The authors and tags populations of the generation settings.
GenAuthors == [population |-> MaxPop, prop |-> MaxPop \div 2, incl |-> 2, excl |-> 1]

GenTags == [population |-> MaxPop - 1, prop |-> 2, incl |-> 1, excl |-> 1]

\* StdRng::seed_from_u64
seed_from_u64(seed) == seed % RngMod

\* One step of the generator.
rng_next(g) == (RngMul * g + RngInc) % RngMod

\* One draw of a whole number below n.
gen_below(g, n) == [val |-> g % n, rng |-> rng_next(g)]

\* A generator seeded from the operating system's entropy: one of two
\* states, whatever the configured seed.
from_entropy(seed) == {0, RngMod - 1}

\* Distributions::create_rng: the generators it can return for the seed.
create_rng(seed) == {seed_from_u64(seed)}

\* RangeDistribution::sample on the generator.
rng_range_sample(g, range_min, range_max, b) ==
    IF b.kind = "uniform"
    THEN LET d == gen_below(g, (range_max - range_min) + 1)
         IN  [val |-> range_sample(range_min, range_max, b, range_min + d.val),
              rng |-> d.rng]
    ELSE LET d == gen_below(g, (range_max - range_min) + 2 * MaxDev + 1)
         IN  [val |-> range_sample(range_min, range_max, b, (d.val - MaxDev) * Scale),
              rng |-> d.rng]

\* Distribution<DateTime<Utc>> for date::Population on the generator.
rng_date(g, dates) ==
    LET d == rng_range_sample(g, dates.min, dates.max, dates.sample)
    IN  [val |-> date_from_timestamp(d.val), rng |-> d.rng]

\* Distribution<date::Filter> for date::Population on the generator:
\* has_lower_bound, the lower bound if any, has_upper_bound, the upper
\* bound if any, then the swap.
rng_date_filter(g, dates) ==
    LET hl == gen_below(g, 2)
        lo == IF hl.val = 1
              THEN rng_range_sample(hl.rng, dates.min, dates.max, dates.lower)
              ELSE [val |-> 0, rng |-> hl.rng]
        hu == gen_below(lo.rng, 2)
        up == IF hu.val = 1
              THEN rng_range_sample(hu.rng, dates.min, dates.max, dates.upper)
              ELSE [val |-> 0, rng |-> hu.rng]
        ordered == order_bounds(
                       IF hl.val = 1 THEN <<date_from_timestamp(lo.val)>> ELSE <<>>,
                       IF hu.val = 1 THEN <<date_from_timestamp(up.val)>> ELSE <<>>)
    IN  [val |-> [lower_bound |-> ordered[1], upper_bound |-> ordered[2]],
         rng |-> up.rng]

RECURSIVE rng_unique_loop(_, _, _, _)
\* The rejection loop of sample_n_unique on the generator.
rng_unique_loop(g, vec, n, pop) ==
    IF Len(vec) < n
    THEN LET l == gen_below(g, pop)
         IN  rng_unique_loop(l.rng, sample_n_unique_step(vec, l.val), n, pop)
    ELSE [val |-> vec, rng |-> g]

\* Distribution<Labels> for label::Population on the generator.
rng_labels(g, lab) ==
    LET n == gen_below(g, lab.prop)
    IN  rng_unique_loop(n.rng, <<>>, n.val, lab.population)

\* Distribution<label::Filter> for label::Population on the generator.
rng_label_filter(g, lab) ==
    LET ni == gen_below(g, lab.incl)
        ne == gen_below(ni.rng, lab.excl)
        ls == rng_unique_loop(ne.rng, <<>>, ni.val + ne.val, lab.population)
    IN  [val |-> [include |-> split_keep(ls.val, ni.val),
                  exclude |-> split_off(ls.val, ni.val)],
         rng |-> ls.rng]

RECURSIVE rng_sample_string(_, _, _)
\* Alphanumeric.sample_string(rng, len): one draw per character.
rng_sample_string(g, str, len) ==
    IF Len(str) < len
    THEN LET c == gen_below(g, AlphanumericCount)
         IN  rng_sample_string(c.rng, Append(str, c.val), len)
    ELSE [val |-> str, rng |-> g]

\* Distributions::sample_document_payload
sample_document_payload(g) ==
    LET d == rng_date(g, GenDates)
        a == rng_labels(d.rng, GenAuthors)
        t == rng_labels(a.rng, GenTags)
        l == rng_sample_string(t.rng, <<>>, LinkLen)
    IN  [val |-> [publication_date |-> d.val, authors |-> a.val,
                  tags |-> t.val, link |-> l.val],
         rng |-> l.rng]

\* Distributions::sample_query_payload
sample_query_payload(g) ==
    LET d == rng_date_filter(g, GenDates)
        a == rng_label_filter(d.rng, GenAuthors)
        t == rng_label_filter(a.rng, GenTags)
    IN  [val |-> [publication_date |-> d.val, authors |-> a.val, tags |-> t.val],
         rng |-> t.rng]

sample_payload(kind, g) ==
    IF kind = "document" THEN sample_document_payload(g)
    ELSE sample_query_payload(g)

CallSequences == UNION {[1..n -> {"document", "query"}] : n \in 0..MaxCalls}

GenIdle ==
    /\ gPc = [r \in Runs |-> "idle"]
    /\ gSeed = [r \in Runs |-> 0]
    /\ gCalls = [r \in Runs |-> <<>>]
    /\ gRng = [r \in Runs |-> 0]
    /\ gOut = [r \in Runs |-> <<>>]

\* Distributions::load in each run: the settings are those of GenDates,
\* GenAuthors and GenTags, which construction accepts; the seed and the
\* calls of a run are its own.
GenInit ==
    /\ gPc = [r \in Runs |-> "loaded"]
    /\ gSeed \in [Runs -> 0..MaxSeed]
    /\ gCalls \in [Runs -> CallSequences]
    /\ gRng = [r \in Runs |-> 0]
    /\ gOut = [r \in Runs |-> <<>>]
    /\ date_try_from_ok(GenDates.min, GenDates.max)
    /\ \A lab \in {GenAuthors, GenTags} :
           try_from_outcome(lab.population, lab.prop, lab.incl, lab.excl) = "ready"

\* let rng = &mut distributions.create_rng();
CreateRng(r) ==
    /\ gPc[r] = "loaded"
    /\ \E g \in create_rng(gSeed[r]) : gRng' = [gRng EXCEPT ![r] = g]
    /\ gPc' = [gPc EXCEPT ![r] = "generating"]
    /\ UNCHANGED <<gSeed, gCalls, gOut>>
    /\ UNCHANGED genOthers

\* The next sample_document_payload or sample_query_payload call of a run.
SamplePayload(r) ==
    /\ gPc[r] = "generating"
    /\ Len(gOut[r]) < Len(gCalls[r])
    /\ LET res == sample_payload(gCalls[r][Len(gOut[r]) + 1], gRng[r])
       IN  /\ gOut' = [gOut EXCEPT ![r] = Append(@, res.val)]
           /\ gRng' = [gRng EXCEPT ![r] = res.rng]
    /\ UNCHANGED <<gPc, gSeed, gCalls>>
    /\ UNCHANGED genOthers

GenNext ==
    \/ \E r \in Runs : CreateRng(r)
    \/ \E r \in Runs : SamplePayload(r)

\* The two runs loaded the same seed and made the same first i calls.
SameRunPrefix(i) ==
    /\ gSeed[1] = gSeed[2]
    /\ i <= Len(gCalls[1])
    /\ i <= Len(gCalls[2])
    /\ SubSeq(gCalls[1], 1, i) = SubSeq(gCalls[2], 1, i)

MaxTasks == 2

MaxQueries == 2

MaxPool == 2

MaxIters == 2

Workers == 1..MaxTasks

\* Recall statistics whatever the filter setting.
recall_always(use_filters) == TRUE

\* let enable_recall_stats = !use_filters;
enable_recall_stats(use_filters) == ~use_filters

\* assert!(queries_per_task > 0); assert!(number_of_tasks > 0);
bench_asserts(params) ==
    /\ params.queries_per_task > 0
    /\ params.number_of_tasks > 0

\* A sample iterator that never ends on its own.
take_one_more(issued, queries_per_task) == issued <= queries_per_task

\* .take(queries_per_task): the iterator yields another index
take(issued, queries_per_task) == issued < queries_per_task

\* Uniform::new(0, inputs.vectors.len())
PoolIndices(len) == 0..(len - 1)

NoWorkers(value) == [w \in Workers |-> value]

\* The documents the database finds for query idx, as dataset indices.
DbHits(idx) == <<<<0, 0, 0, idx>>>>

\* The ids the database answers query idx with: the fake uuids of the
\* documents found, as made at ingestion.
DbAnswer(idx) == [i \in 1..Len(DbHits(idx)) |-> index_to_fake_uuid(DbHits(idx)[i])]

\* json!({ "expected_hits": k }), the first line of recall_data.jsonl
RecallHeader == [expected_hits |-> "k"]

\* Group::Add { query_id, vectors }
GroupAdd(idx, vectors) == [group |-> "Add", query_id |-> idx, vectors |-> vectors]

\* Group::Write
GroupWrite == [group |-> "Write"]

\* A Group::Add arm that pushes the query id without the decoded indices.
recall_entry_bare(msg) == <<msg.query_id, <<>>>>

\* The entry pushed for a Group::Add: (query_id, decoded indices).
recall_entry(msg) ==
    <<msg.query_id, [i \in 1..Len(msg.vectors) |-> fake_uuid_to_index(msg.vectors[i])]>>

\* A Group::Write arm that forgets to empty the buffer.
truncate_nothing(buffer) == buffer

\* recall_data.truncate(0)
truncate(buffer) == <<>>

\* The recall channel and writer_task before bench creates them.
RecallUnused ==
    /\ recallChan = <<>>
    /\ receiverOpen = TRUE
    /\ sendersAlive = TRUE
    /\ writerPc = "unspawned"
    /\ recall_data = <<>>
    /\ recallFile = [exists |-> FALSE, lines |-> <<>>]
    /\ recallHistory = <<>>

BenchIdle ==
    /\ bPc = "idle"
    /\ qparams = [number_of_tasks |-> 0, queries_per_task |-> 0, use_filters |-> FALSE]
    /\ pool = 0
    /\ bIter = 0
    /\ bSpawned = 0
    /\ wPc = NoWorkers("absent")
    /\ wIssued = NoWorkers(0)
    /\ wReturned = NoWorkers(0)
    /\ wQuery = NoWorkers(<<>>)
    /\ dbQueries = 0
    /\ recallSent = [adds |-> 0, writes |-> 0]
    /\ RecallUnused
    /\ okQueries = <<>>

\* The arguments of bench: any query parameters, a pool of at least one
\* test query.
BenchInit ==
    /\ bPc = "configured"
    /\ qparams \in [number_of_tasks : 0..MaxTasks,
                    queries_per_task : 0..MaxQueries,
                    use_filters : BOOLEAN]
    /\ pool \in 1..MaxPool
    /\ bIter = 0
    /\ bSpawned = 0
    /\ wPc = NoWorkers("absent")
    /\ wIssued = NoWorkers(0)
    /\ wReturned = NoWorkers(0)
    /\ wQuery = NoWorkers(<<>>)
    /\ dbQueries = 0
    /\ recallSent = [adds |-> 0, writes |-> 0]
    /\ RecallUnused
    /\ okQueries = <<>>

\* The head of bench up to the first iteration: the assertions.
BeginTrial ==
    /\ bPc = "configured"
    /\ bPc' = IF bench_asserts(qparams) THEN "trial" ELSE "panicked"
    /\ writerPc' = IF bench_asserts(qparams) THEN "spawned" ELSE writerPc
    /\ UNCHANGED <<qparams, pool, bIter, bSpawned, wPc, wIssued, wReturned,
                   wQuery, dbQueries, recallSent>>
    /\ UNCHANGED <<recallChan, receiverOpen, sendersAlive, recall_data, recallFile>>
    /\ UNCHANGED recallHistory
    /\ UNCHANGED okQueries
    /\ UNCHANGED benchOthers

\* b.to_async(rt).iter(|| async { let mut tasks = JoinSet::new(); ...
BeginIteration ==
    /\ bPc \in {"trial", "iterated"}
    /\ bIter < MaxIters
    /\ bPc' = "spawning"
    /\ bSpawned' = 0
    /\ wPc' = NoWorkers("absent")
    /\ wIssued' = NoWorkers(0)
    /\ wReturned' = NoWorkers(0)
    /\ wQuery' = NoWorkers(<<>>)
    /\ UNCHANGED <<qparams, pool, bIter, dbQueries, recallSent, recallVars>>
    /\ okQueries' = Append(okQueries, [idx \in PoolIndices(MaxPool) |-> 0])
    /\ UNCHANGED benchOthers

\* One round of `for _ in 0..number_of_tasks { tasks.spawn(...) }`; after
\* the last round the iteration goes on to join_next.
Spawn ==
    /\ bPc = "spawning"
    /\ bSpawned < qparams.number_of_tasks
    /\ bSpawned' = bSpawned + 1
    /\ wPc' = [wPc EXCEPT ![bSpawned + 1] = "running"]
    /\ bPc' = IF bSpawned + 1 < qparams.number_of_tasks THEN "spawning" ELSE "joining"
    /\ UNCHANGED <<qparams, pool, bIter, wIssued, wReturned, wQuery, dbQueries,
                   recallSent, recallVars>>
    /\ UNCHANGED okQueries
    /\ UNCHANGED benchOthers

\* A worker takes the next index of its sample iterator and calls
\* database.query with vectors[idx] and payloads[idx].
IssueQuery(w) ==
    /\ bPc \in {"spawning", "joining"}
    /\ wPc[w] = "running"
    /\ take(wIssued[w], qparams.queries_per_task)
    /\ wPc' = [wPc EXCEPT ![w] = "querying"]
    /\ wIssued' = [wIssued EXCEPT ![w] = @ + 1]
    /\ \E idx \in PoolIndices(pool) :
           wQuery' = [wQuery EXCEPT ![w] = [vector |-> idx, payload |-> idx]]
    /\ dbQueries' = dbQueries + 1
    /\ UNCHANGED <<bPc, qparams, pool, bIter, bSpawned, wReturned, recallSent,
                   recallVars>>
    /\ UNCHANGED okQueries
    /\ UNCHANGED benchOthers

\* The awaited query returns: Ok, and the worker sends Group::Add when
\* recall statistics are enabled; or Err, and `?` ends the worker.
QueryReturns(w, ok) ==
    /\ bPc \in {"spawning", "joining"}
    /\ wPc[w] = "querying"
    /\ wReturned' = [wReturned EXCEPT ![w] = @ + 1]
    /\ wQuery' = [wQuery EXCEPT ![w] = <<>>]
    /\ IF ok /\ enable_recall_stats(qparams.use_filters)
       THEN IF receiverOpen
            THEN /\ recallChan' = Append(recallChan,
                                         GroupAdd(wQuery[w].vector,
                                                  DbAnswer(wQuery[w].vector)))
                 /\ recallHistory' = Append(recallHistory,
                                            GroupAdd(wQuery[w].vector,
                                                     DbAnswer(wQuery[w].vector)))
                 /\ recallSent' = [recallSent EXCEPT !.adds = @ + 1]
                 /\ wPc' = [wPc EXCEPT ![w] = "running"]
            ELSE \* send fails on a closed channel and `?` ends the worker
                 /\ wPc' = [wPc EXCEPT ![w] = "failed"]
                 /\ UNCHANGED <<recallChan, recallSent, recallHistory>>
       ELSE /\ wPc' = [wPc EXCEPT ![w] = IF ok THEN "running" ELSE "failed"]
            /\ UNCHANGED <<recallChan, recallSent, recallHistory>>
    /\ UNCHANGED <<bPc, qparams, pool, bIter, bSpawned, wIssued, dbQueries>>
    /\ UNCHANGED <<receiverOpen, sendersAlive, writerPc, recall_data, recallFile>>
    /\ okQueries' = IF ok
                     THEN [okQueries EXCEPT ![Len(okQueries)][wQuery[w].vector] = @ + 1]
                     ELSE okQueries
    /\ UNCHANGED benchOthers

\* The sample iterator is exhausted: the worker returns Ok(()).
WorkerReturns(w) ==
    /\ bPc \in {"spawning", "joining"}
    /\ wPc[w] = "running"
    /\ ~take(wIssued[w], qparams.queries_per_task)
    /\ wPc' = [wPc EXCEPT ![w] = "finished"]
    /\ UNCHANGED <<bPc, qparams, pool, bIter, bSpawned, wIssued, wReturned,
                   wQuery, dbQueries, recallSent, recallVars>>
    /\ UNCHANGED okQueries
    /\ UNCHANGED benchOthers

\* A join that takes every ended worker for a success.
unwrap_ignores_err(worker_pc) == TRUE

\* result.unwrap().unwrap() returns: the worker returned Ok(())
unwrap_ok(worker_pc) == worker_pc = "finished"

\* tasks.join_next().await yields a worker that ended;
\* result.unwrap().unwrap() panics on a worker that returned Err.
JoinNext(w) ==
    /\ bPc = "joining"
    /\ wPc[w] \in {"finished", "failed"}
    /\ IF unwrap_ok(wPc[w])
       THEN /\ wPc' = [wPc EXCEPT ![w] = "joined"]
            /\ bPc' = bPc
            /\ sendersAlive' = sendersAlive
       ELSE \* the panic unwinds through the closure that owns the sender
            /\ wPc' = wPc
            /\ bPc' = "panicked"
            /\ sendersAlive' = FALSE
    /\ UNCHANGED <<qparams, pool, bIter, bSpawned, wIssued, wReturned, wQuery,
                   dbQueries, recallSent>>
    /\ UNCHANGED <<recallChan, receiverOpen, writerPc, recall_data, recallFile>>
    /\ UNCHANGED recallHistory
    /\ UNCHANGED okQueries
    /\ UNCHANGED benchOthers

\* join_next() yields None: the iteration sends Group::Write when recall
\* statistics are enabled and ends.
EndIteration ==
    /\ bPc = "joining"
    /\ \A w \in Workers : wPc[w] \in {"absent", "joined"}
    /\ IF enable_recall_stats(qparams.use_filters) /\ ~receiverOpen
       THEN \* recall_sender.send(Group::Write).unwrap() panics
            /\ bPc' = "panicked"
            /\ sendersAlive' = FALSE
            /\ UNCHANGED <<recallSent, recallChan, recallHistory, bIter>>
       ELSE /\ recallSent' = IF enable_recall_stats(qparams.use_filters)
                             THEN [recallSent EXCEPT !.writes = @ + 1]
                             ELSE recallSent
            /\ recallChan' = IF enable_recall_stats(qparams.use_filters)
                             THEN Append(recallChan, GroupWrite)
                             ELSE recallChan
            /\ recallHistory' = IF enable_recall_stats(qparams.use_filters)
                                THEN Append(recallHistory, GroupWrite)
                                ELSE recallHistory
            /\ bIter' = bIter + 1
            /\ bPc' = "iterated"
            /\ sendersAlive' = sendersAlive
    /\ UNCHANGED <<qparams, pool, bSpawned, wPc, wIssued, wReturned, wQuery,
                   dbQueries>>
    /\ UNCHANGED <<receiverOpen, writerPc, recall_data, recallFile>>
    /\ UNCHANGED okQueries
    /\ UNCHANGED benchOthers

\* bench_with_input returns after the last iteration and drops the closure
\* with its recall_sender; bench goes on to rt.block_on(writer_task).
EndTrial ==
    /\ bPc = "iterated"
    /\ bPc' = "awaiting_writer"
    /\ sendersAlive' = FALSE
    /\ UNCHANGED <<qparams, pool, bIter, bSpawned, wPc, wIssued, wReturned,
                   wQuery, dbQueries, recallSent>>
    /\ UNCHANGED <<recallChan, receiverOpen, writerPc, recall_data, recallFile>>
    /\ UNCHANGED recallHistory
    /\ UNCHANGED okQueries
    /\ UNCHANGED benchOthers

\* rt.block_on(writer_task)?? returns: bench returns Ok(()).
FinishTrial ==
    /\ bPc = "awaiting_writer"
    /\ writerPc = "ended"
    /\ bPc' = "done"
    /\ UNCHANGED <<qparams, pool, bIter, bSpawned, wPc, wIssued, wReturned,
                   wQuery, dbQueries, recallSent, recallVars>>
    /\ UNCHANGED okQueries
    /\ UNCHANGED benchOthers

\* The head of writer_task: without recall statistics it closes the
\* receiver and returns; otherwise write_file creates recall_data.jsonl
\* with the header line, or fails when the file exists.
WriterStart ==
    /\ writerPc = "spawned"
    /\ IF ~enable_recall_stats(qparams.use_filters) \/ recallFile.exists
       THEN /\ receiverOpen' = FALSE
            /\ writerPc' = "ended"
            /\ recallFile' = recallFile
       ELSE /\ recallFile' = [exists |-> TRUE, lines |-> <<RecallHeader>>]
            /\ writerPc' = "receiving"
            /\ receiverOpen' = receiverOpen
    /\ UNCHANGED <<bPc, qparams, pool, bIter, bSpawned, wPc, wIssued, wReturned,
                   wQuery, dbQueries, recallSent>>
    /\ UNCHANGED <<recallChan, sendersAlive, recall_data>>
    /\ UNCHANGED recallHistory
    /\ UNCHANGED okQueries
    /\ UNCHANGED benchOthers

\* One round of `while let Some(group) = recall_receiver.recv().await`:
\* Group::Add pushes the decoded entry; Group::Write appends the buffer
\* as one line (append_line_to_file) and truncates it.
WriterRecv ==
    /\ writerPc = "receiving"
    /\ recallChan # <<>>
    /\ recallChan' = Tail(recallChan)
    /\ IF Head(recallChan).group = "Add"
       THEN /\ recall_data' = Append(recall_data, recall_entry(Head(recallChan)))
            /\ recallFile' = recallFile
       ELSE /\ recallFile' = [recallFile EXCEPT !.lines = Append(@, recall_data)]
            /\ recall_data' = truncate(recall_data)
    /\ UNCHANGED <<bPc, qparams, pool, bIter, bSpawned, wPc, wIssued, wReturned,
                   wQuery, dbQueries, recallSent>>
    /\ UNCHANGED <<receiverOpen, sendersAlive, writerPc>>
    /\ UNCHANGED recallHistory
    /\ UNCHANGED okQueries
    /\ UNCHANGED benchOthers

\* recv() yields None: the channel is empty and every sender is dropped.
WriterEnd ==
    /\ writerPc = "receiving"
    /\ recallChan = <<>>
    /\ ~sendersAlive
    /\ writerPc' = "ended"
    /\ receiverOpen' = FALSE
    /\ UNCHANGED <<bPc, qparams, pool, bIter, bSpawned, wPc, wIssued, wReturned,
                   wQuery, dbQueries, recallSent>>
    /\ UNCHANGED <<recallChan, sendersAlive, recall_data, recallFile>>
    /\ UNCHANGED recallHistory
    /\ UNCHANGED okQueries
    /\ UNCHANGED benchOthers

BenchNext ==
    \/ BeginTrial
    \/ BeginIteration
    \/ Spawn
    \/ \E w \in Workers : IssueQuery(w)
    \/ \E w \in Workers : \E ok \in BOOLEAN : QueryReturns(w, ok)
    \/ \E w \in Workers : WorkerReturns(w)
    \/ \E w \in Workers : JoinNext(w)
    \/ EndIteration
    \/ EndTrial
    \/ FinishTrial
    \/ WriterStart
    \/ WriterRecv
    \/ WriterEnd

SpawnedWorkers == {w \in Workers : wPc[w] # "absent"}

\* C10: in every iteration exactly number_of_tasks workers are spawned;
\* a worker has at most one query in flight, each query carries one pool
\* index below the pool size for both the vector and the payload, a worker
\* that ended without failure issued exactly queries_per_task queries, and
\* an iteration that ended issued number_of_tasks * queries_per_task
\* queries, whatever the interleaving of the workers.
C10_IterationIssuesAllQueries ==
    /\ Cardinality(SpawnedWorkers) = bSpawned
    /\ bSpawned <= qparams.number_of_tasks
    /\ bPc \in {"joining", "iterated"} => bSpawned = qparams.number_of_tasks
    /\ \A w \in Workers :
        /\ wIssued[w] <= qparams.queries_per_task
        /\ wIssued[w] - wReturned[w] = (IF wPc[w] = "querying" THEN 1 ELSE 0)
        /\ wPc[w] = "querying" =>
              /\ wQuery[w].vector \in 0..(pool - 1)
              /\ wQuery[w].payload = wQuery[w].vector
        /\ wPc[w] \in {"finished", "joined"} =>
              /\ wIssued[w] = qparams.queries_per_task
              /\ wReturned[w] = qparams.queries_per_task
    /\ bPc = "iterated" =>
          dbQueries = bIter * qparams.number_of_tasks * qparams.queries_per_task

\* C10 witness: a second iteration of two workers with two queries each
\* ended without failure.
C10_Witness ==
    /\ bPc = "iterated"
    /\ bIter = 2
    /\ qparams.number_of_tasks = 2
    /\ qparams.queries_per_task = 2
    /\ \A w \in 1..2 : wPc[w] = "joined" /\ wIssued[w] = 2
    /\ dbQueries = 8

\* A worker of the running iteration returned Err.
SomeWorkerFailed == \E w \in Workers : wPc[w] = "failed"

RECURSIVE SumUpTo(_, _)
\* f[1] + ... + f[n]
SumUpTo(f, n) == IF n = 0 THEN 0 ELSE f[n] + SumUpTo(f, n - 1)

\* The queries of the running iteration that returned Ok.
IterationResults ==
    SumUpTo([w \in Workers |-> wReturned[w] - (IF wPc[w] = "failed" THEN 1 ELSE 0)],
            MaxTasks)

\* The position of the last Group::Write in the channel, 0 without one.
LastWrite(chan) ==
    Max(0, CHOOSE i \in 0..Len(chan) :
               /\ i > 0 => chan[i].group = "Write"
               /\ \A j \in (i + 1)..Len(chan) : chan[j].group # "Write")

\* The results that no Group::Write sent so far covers: those in the
\* channel after the last Group::Write and, when none is in the channel,
\* the writer's buffer.
PendingEntries ==
    (Len(recallChan) - LastWrite(recallChan))
        + (IF LastWrite(recallChan) = 0 THEN Len(recall_data) ELSE 0)

\* The lines of recall_data.jsonl after the header.
DataLines == IF recallFile.exists THEN Len(recallFile.lines) - 1 ELSE 0

\* The Group::Write messages still in the channel.
QueuedWrites == Cardinality({i \in 1..Len(recallChan) : recallChan[i].group = "Write"})

\* C11: once a query of an iteration failed, the iteration never ends and
\* the trial never completes; the failing worker stays failed and issues no
\* further query (no retry); no Group::Write is sent for that iteration, so
\* the lines written or still to be written are those of the completed
\* iterations and every result of the failing iteration stays unflushed.
C11_FailFast ==
    /\ [](SomeWorkerFailed =>
            /\ bPc \in {"spawning", "joining", "panicked"}
            /\ enable_recall_stats(qparams.use_filters) =>
                  /\ recallSent.writes = bIter
                  /\ DataLines + QueuedWrites = bIter
                  /\ PendingEntries = IterationResults)
    /\ [][SomeWorkerFailed =>
            /\ bIter' = bIter
            /\ recallSent'.writes = recallSent.writes
            /\ bPc' \notin {"iterated", "awaiting_writer", "done"}
            /\ \A w \in Workers :
                  wPc[w] = "failed" =>
                      /\ wPc'[w] = "failed"
                      /\ wIssued'[w] = wIssued[w]
                      /\ wReturned'[w] = wReturned[w]
                      /\ wQuery'[w] = <<>>]_vars

\* C11 witness: in the second iteration of a trial with recall statistics
\* a query failed after another had succeeded; the join panicked, the log
\* holds the first iteration's line only and the second iteration's result
\* is left in the writer's buffer.
C11_Witness ==
    /\ bPc = "panicked"
    /\ SomeWorkerFailed
    /\ enable_recall_stats(qparams.use_filters)
    /\ bIter = 1
    /\ IterationResults >= 1
    /\ recallChan = <<>>
    /\ Len(recall_data) = IterationResults
    /\ DataLines = 1

\* The entry a Group::Add stands for: the query and the dataset indices
\* of the documents the database found for it.
ExpectedEntry(msg) == <<msg.query_id, DbHits(msg.query_id)>>

RECURSIVE SplitOnWrite(_, _, _)
\* The messages read so far, cut at every Group::Write: the lines the
\* writes close, and the entries after the last write.
SplitOnWrite(msgs, lines, buffer) ==
    IF msgs = <<>> THEN [lines |-> lines, buffer |-> buffer]
    ELSE IF Head(msgs).group = "Add"
         THEN SplitOnWrite(Tail(msgs), lines, Append(buffer, ExpectedEntry(Head(msgs))))
         ELSE SplitOnWrite(Tail(msgs), Append(lines, buffer), <<>>)

\* The messages writer_task has received.
Received == SubSeq(recallHistory, 1, Len(recallHistory) - Len(recallChan))

\* writer_task receives a message in this step.
Receives(group) ==
    /\ writerPc = "receiving"
    /\ recallChan # <<>>
    /\ Head(recallChan).group = group
    /\ recallChan' = Tail(recallChan)

\* C12: an Add appends (query_id, decoded indices) to the buffer and leaves
\* the log alone; a Write appends the buffer as one line and empties it;
\* so the log after its header is the received messages cut at the writes,
\* each line holding the entries added since the previous write in arrival
\* order, with the original dataset indices, and the buffer holds the rest.
C12_RecallAccumulator ==
    /\ [](/\ recallChan = SubSeq(recallHistory,
                                 Len(recallHistory) - Len(recallChan) + 1,
                                 Len(recallHistory))
          /\ recall_data = SplitOnWrite(Received, <<>>, <<>>).buffer
          /\ recallFile.exists =>
                recallFile.lines
                    = <<RecallHeader>> \o SplitOnWrite(Received, <<>>, <<>>).lines
          /\ ~recallFile.exists => Received = <<>>)
    /\ [][/\ Receives("Add") =>
                /\ recallFile' = recallFile
                /\ recall_data' = Append(recall_data, recall_entry(Head(recallChan)))
          /\ Receives("Write") =>
                /\ recallFile'.lines = Append(recallFile.lines, recall_data)
                /\ recall_data' = <<>>
          /\ recallFile'.lines # recallFile.lines =>
                \/ Receives("Write")
                \/ ~recallFile.exists /\ recallFile'.lines = <<RecallHeader>>]_vars

\* C12 witness: the writer has flushed two iterations; the two lines hold
\* different entries and the buffer is empty.
C12_Witness ==
    /\ writerPc = "receiving"
    /\ Len(recallFile.lines) = 3
    /\ Len(recallFile.lines[2]) = 2
    /\ Len(recallFile.lines[3]) = 2
    /\ recallFile.lines[2] # recallFile.lines[3]
    /\ recallFile.lines[2][1] # recallFile.lines[2][2]
    /\ recall_data = <<>>
    /\ recallChan = <<>>

\* C13: with use_filters = true no Add and no Write is ever sent, the
\* writer task ends in its first step having closed the receiver, and
\* recall_data.jsonl is never created; with use_filters = false the writer
\* creates the file, every successful query sends an Add and every
\* completed iteration a Write.
C13_RecallOnlyWithoutFilters ==
    /\ [](qparams.use_filters =>
            /\ recallHistory = <<>>
            /\ recallChan = <<>>
            /\ recallSent = [adds |-> 0, writes |-> 0]
            /\ recall_data = <<>>
            /\ ~recallFile.exists
            /\ writerPc \in {"unspawned", "spawned", "ended"})
    /\ [][qparams.use_filters /\ writerPc = "spawned" /\ writerPc' # writerPc =>
            writerPc' = "ended" /\ ~receiverOpen']_vars
    /\ [](~qparams.use_filters =>
            /\ writerPc \in {"receiving", "ended"} => recallFile.exists
            /\ recallSent.writes = bIter
            /\ bPc \in {"iterated", "awaiting_writer", "done"} =>
                  recallSent.adds
                      = bIter * qparams.number_of_tasks * qparams.queries_per_task
            /\ bPc = "done" => DataLines = bIter)

\* C13 witness: a trial with filters ran two iterations of two workers with
\* two queries each and returned; the writer ended and there is no file.
C13_Witness ==
    /\ qparams.use_filters
    /\ bPc = "done"
    /\ bIter = 2
    /\ dbQueries = 8
    /\ writerPc = "ended"
    /\ ~recallFile.exists

(***************************************************************************)
(* docker.rs: parse_mem_current_max.                                       *)
(*                                                                         *)
(* Strings are sequences of characters.  Every number the function makes   *)
(* is a decimal numeral times powers of 2 and 10, so a value is held       *)
(* exactly as m * 2^e2 * 5^e5 with m prime to 10 (m = 0 for zero); the     *)
(* f64 rounding of the product and the quotient is not modelled.           *)
(***************************************************************************)
DecDigits == {"0", "1", "2", "3", "4", "5", "6", "7", "8", "9"}

digit_value(c) ==
    CASE c = "1" -> 1 [] c = "2" -> 2 [] c = "3" -> 3 [] c = "4" -> 4
      [] c = "5" -> 5 [] c = "6" -> 6 [] c = "7" -> 7 [] c = "8" -> 8
      [] c = "9" -> 9 [] OTHER -> 0

MemError == [ok |-> FALSE, neg |-> FALSE, m |-> 0, e2 |-> 0, e5 |-> 0]

RECURSIVE Normal(_, _, _, _)
\* The value m * 2^e2 * 5^e5 with the factors 2 and 5 taken out of m.
Normal(neg, m, e2, e5) ==
    IF m = 0 THEN [ok |-> TRUE, neg |-> neg, m |-> 0, e2 |-> 0, e5 |-> 0]
    ELSE IF m % 2 = 0 THEN Normal(neg, m \div 2, e2 + 1, e5)
    ELSE IF m % 5 = 0 THEN Normal(neg, m \div 5, e2, e5 + 1)
    ELSE [ok |-> TRUE, neg |-> neg, m |-> m, e2 |-> e2, e5 |-> e5]

\* value * 2^e2 * 5^e5
Scaled(value, e2, e5) ==
    IF value.m = 0 THEN value
    ELSE [value EXCEPT !.e2 = @ + e2, !.e5 = @ + e5]

RECURSIVE dec_digit_run(_)
dec_digit_run(t) ==
    IF t # <<>> /\ t[1] \in DecDigits THEN 1 + dec_digit_run(Tail(t)) ELSE 0

RECURSIVE trailing_zeros(_)
trailing_zeros(ds) ==
    IF ds # <<>> /\ ds[Len(ds)] = "0"
    THEN 1 + trailing_zeros(SubSeq(ds, 1, Len(ds) - 1)) ELSE 0

RECURSIVE digits_value(_)
digits_value(ds) ==
    IF ds = <<>> THEN 0
    ELSE 10 * digits_value(SubSeq(ds, 1, Len(ds) - 1)) + digit_value(ds[Len(ds)])

\* s.parse::<f64>() on sign, integer digits, '.', fraction digits: an error
\* when no digit was read or characters are left over.
parse_number(t) ==
    LET neg   == t # <<>> /\ t[1] = "-"
        body  == IF neg THEN Tail(t) ELSE t
        i     == dec_digit_run(body)
        rest  == SubSeq(body, i + 1, Len(body))
        dot   == rest # <<>> /\ rest[1] = "."
        after == IF dot THEN Tail(rest) ELSE rest
        j     == dec_digit_run(after)
        left  == SubSeq(after, j + 1, Len(after))
        ds    == SubSeq(body, 1, i) \o SubSeq(after, 1, j)
        z     == trailing_zeros(ds)
    IN  IF left # <<>> \/ i + j = 0 THEN MemError
        ELSE Normal(neg, digits_value(SubSeq(ds, 1, Len(ds) - z)), z - j, z - j)

RECURSIVE trim_start(_)
trim_start(t) == IF t # <<>> /\ t[1] = " " THEN trim_start(Tail(t)) ELSE t

RECURSIVE trim_end(_)
trim_end(t) ==
    IF t # <<>> /\ t[Len(t)] = " " THEN trim_end(SubSeq(t, 1, Len(t) - 1)) ELSE t

\* str::trim
trim(t) == trim_end(trim_start(t))

RECURSIVE after_last_slash(_)
\* input.split('/').last(): the text after the last '/'
after_last_slash(t) ==
    IF t = <<>> \/ t[Len(t)] = "/" THEN <<>>
    ELSE Append(after_last_slash(SubSeq(t, 1, Len(t) - 1)), t[Len(t)])

RECURSIVE until_slash(_)
\* input.split('/').next(): the text before the first '/'
until_slash(t) ==
    IF t = <<>> \/ t[1] = "/" THEN <<>> ELSE <<t[1]>> \o until_slash(Tail(t))

\* str::strip_suffix over a set of characters: [some, rest]
strip_suffix(t, cs) ==
    IF t # <<>> /\ t[Len(t)] \in cs
    THEN [some |-> TRUE, rest |-> SubSeq(t, 1, Len(t) - 1)]
    ELSE [some |-> FALSE, rest |-> t]

\* parse_mem_current_max(input, divide_by)
parse_mem_current_max(input, divide_by) ==
    LET s0    == trim(until_slash(input))
        b     == strip_suffix(s0, {"B"})
        i     == strip_suffix(b.rest, {"i"})
        base  == IF i.some THEN 2 ELSE 10
        pow_multiplier == IF i.some THEN 10 ELSE 3
        k     == strip_suffix(i.rest, {"K", "k"})
        mm    == strip_suffix(i.rest, {"M"})
        g     == strip_suffix(i.rest, {"G"})
        power_level == IF k.some THEN 1 ELSE IF mm.some THEN 2
                       ELSE IF g.some THEN 3 ELSE 0
        s     == IF k.some THEN k.rest ELSE IF mm.some THEN mm.rest
                 ELSE IF g.some THEN g.rest ELSE i.rest
        number == parse_number(s)
        exp   == power_level * pow_multiplier
    IN  IF ~b.some THEN MemError
        ELSE IF power_level = 0 /\ base = 2 THEN MemError
        ELSE IF ~number.ok THEN MemError
        ELSE \* number * base.pow(exp) / divide_by, with 10 = 2 * 5
             Scaled(number,
                    exp - divide_by.e2,
                    (IF base = 10 THEN exp ELSE 0) - divide_by.e5)

\* const GiB: f64 = 0x40000000 as _;
GiB == [e2 |-> 30, e5 |-> 0]

\* const GB: f64 = 1_000_000_000.;
GB == [e2 |-> 9, e5 |-> 9]

\* The numerals, unit suffixes and limit parts the inputs are made of.
MemNumbers ==
    {<<"1", "0">>,
     <<"1", "0", "2", "4">>,
     <<"2", "5", "0", "0", "0", "0", "0">>,
     <<"4", "2", "5", "0", "0", "0", "0", "0", "0", "0">>,
     <<"2", ".", "5">>,
     <<"4", ".", "3", "1", "1">>,
     <<>>,
     <<"x">>,
     <<"1", "0", " ">>,
     <<"-", "1">>}

MemUnits ==
    {<<"B">>, <<"K", "B">>, <<"k", "B">>, <<"M", "B">>, <<"G", "B">>, <<"K", "i", "B">>, <<"k", "i", "B">>,
     <<"M", "i", "B">>, <<"G", "i", "B">>, <<"i", "B">>, <<>>, <<"K">>}

MemTails ==
    {<<>>,
     <<" ", "/", " ", "2", "0", "G", "i", "B">>,
     <<"/", "x">>,
     <<"/">>}

MemPads == {<<>>, <<" ">>}

\* "<pad><number><unit><pad><tail>"
MemInput(parts) ==
    parts.lead \o parts.number \o parts.unit \o parts.trail \o parts.tail

MemIdle ==
    /\ mPc = "idle"
    /\ mParts = <<>>
    /\ mInput = <<>>
    /\ mDivide = GiB
    /\ mRes = MemError

MemInit ==
    /\ mPc = "start"
    /\ mParts \in [lead : MemPads, number : MemNumbers, unit : MemUnits,
                   trail : MemPads, tail : MemTails]
    /\ mInput = MemInput(mParts)
    /\ mDivide \in {GiB, GB}
    /\ mRes = MemError

ParseMem ==
    /\ mPc = "start"
    /\ mRes' = parse_mem_current_max(mInput, mDivide)
    /\ mPc' = "parsed"
    /\ UNCHANGED <<mParts, mInput, mDivide>>
    /\ UNCHANGED memOthers

MemNext == ParseMem

\* The factor of each unit: 1024^level for KiB, MiB, GiB, 1000^level for
\* KB, MB, GB (level 1, 2, 3) and 1 for B, as powers of 2 and 5.
UnitFactor(unit) ==
    CASE unit = <<"K", "i", "B">> -> [e2 |-> 10, e5 |-> 0]
      [] unit = <<"M", "i", "B">> -> [e2 |-> 20, e5 |-> 0]
      [] unit = <<"G", "i", "B">> -> [e2 |-> 30, e5 |-> 0]
      [] unit = <<"K", "B">> -> [e2 |-> 3, e5 |-> 3]
      [] unit = <<"M", "B">> -> [e2 |-> 6, e5 |-> 6]
      [] unit = <<"G", "B">> -> [e2 |-> 9, e5 |-> 9]
      [] unit = <<"B">> -> [e2 |-> 0, e5 |-> 0]

NamedUnits == {<<"B">>, <<"K", "B">>, <<"M", "B">>, <<"G", "B">>, <<"K", "i", "B">>, <<"M", "i", "B">>, <<"G", "i", "B">>}

\* C17: the result is that of the current part alone, whatever the limit
\* part; for a numeral with one of the units B, KB, MB, GB, KiB, MiB, GiB
\* it is numeral * factor / divide_by; 1024MiB in GiB is 1, 2500000KB in GB
\* is 2.5 and 4250000000B in GB is 4.25.
C17_ByteSizeParsing ==
    mPc = "parsed" =>
        /\ mRes = parse_mem_current_max(MemInput([mParts EXCEPT !.tail = <<>>]), mDivide)
        /\ (parse_number(mParts.number).ok /\ mParts.unit \in NamedUnits) =>
              /\ mRes.ok
              /\ mRes = Scaled(parse_number(mParts.number),
                               UnitFactor(mParts.unit).e2 - mDivide.e2,
                               UnitFactor(mParts.unit).e5 - mDivide.e5)
        /\ (mParts.number = <<"1", "0", "2", "4">> /\ mParts.unit = <<"M", "i", "B">> /\ mDivide = GiB) =>
              mRes = [ok |-> TRUE, neg |-> FALSE, m |-> 1, e2 |-> 0, e5 |-> 0]
        /\ (mParts.number = <<"2", "5", "0", "0", "0", "0", "0">> /\ mParts.unit = <<"K", "B">> /\ mDivide = GB) =>
              mRes = [ok |-> TRUE, neg |-> FALSE, m |-> 1, e2 |-> -1, e5 |-> 1]
        /\ (mParts.number = <<"4", "2", "5", "0", "0", "0", "0", "0", "0", "0">> /\ mParts.unit = <<"B">> /\ mDivide = GB) =>
              mRes = [ok |-> TRUE, neg |-> FALSE, m |-> 17, e2 |-> -2, e5 |-> 0]

\* C17 witness: "2500000KB / 20GiB" with unit GB was parsed to 5/2.
C17_Witness ==
    /\ mPc = "parsed"
    /\ mInput = <<"2", "5", "0", "0", "0", "0", "0", "K", "B", " ", "/", " ", "2", "0", "G", "i", "B">>
    /\ mDivide = GB
    /\ mRes.ok
    /\ mRes.m = 1 /\ mRes.e2 = -1 /\ mRes.e5 = 1

(***************************************************************************)
(* docker.rs: LineParser::parse and the statistics it feeds.               *)
(*                                                                         *)
(* A line of the docker process is a sequence of tokens: an ANSI escape    *)
(* sequence, a blank, the text of a JSON object, or other text; the JSON   *)
(* object the text stands for is carried beside the tokens.                *)
(***************************************************************************)
Esc == "ESC[2J"

Blank == " "

JsonText == "{json}"

OtherText == "text"

\* The fields of StatPointJson.
StatFields == {"Name", "MemUsage", "CPUPerc", "BlockIO", "NetIO"}

\* The name prefix of the trial's backend (LineParser.name_prefix).
NamePrefix == <<"q", "d">>

LineNames == {<<"q", "d", "1">>, <<"q">>, <<"x", "q", "d">>}

MemUsageStrings == {<<"1", "G", "i", "B", " ", "/", " ", "2", "G", "i", "B">>, <<"1", " ", "G", "i", "B">>}

CPUPercStrings == {<<"5", "%">>, <<"5">>}

BlockIOStrings == {<<"2", "G", "B", " ", "/", " ", "1", "G", "B">>, <<"2", "G", "b">>}

NetIOStrings == {<<"3", "G", "B">>, <<>>}

\* The JSON objects docker stats can print: all five fields as strings, or
\* an object without its NetIO field.
JsonObjects ==
    [Name : LineNames, MemUsage : MemUsageStrings, CPUPerc : CPUPercStrings,
     BlockIO : BlockIOStrings, NetIO : NetIOStrings]
    \cup [Name : LineNames, MemUsage : MemUsageStrings, CPUPerc : CPUPercStrings,
          BlockIO : BlockIOStrings]

NoObject == [Name |-> <<>>]

\* The lines the process can print.
ScanLines ==
    {[tokens |-> t, object |-> NoObject] :
         t \in {<<>>, <<Esc>>, <<Esc, Esc>>, <<Blank>>, <<Esc, Blank>>, <<OtherText>>}}
    \cup {[tokens |-> t, object |-> o] :
              t \in {<<JsonText>>, <<Esc, Esc, JsonText>>, <<Blank, JsonText, Blank>>},
              o \in JsonObjects}

\* self.regex.replace_all(line, ""): the escape sequences are taken out
strip_escapes(tokens) == SelectSeq(tokens, LAMBDA c : c # Esc)

\* serde_json::from_str::<StatPointJson>(text): Ok for the text of one JSON
\* object holding the five fields
from_str_ok(tokens, object) ==
    /\ tokens = <<JsonText>>
    /\ StatFields \subseteq DOMAIN object

\* name.starts_with(&self.name_prefix)
starts_with(name, prefix) ==
    /\ Len(name) >= Len(prefix)
    /\ SubSeq(name, 1, Len(prefix)) = prefix

\* parse_percentage
parse_percentage(value) ==
    LET number == strip_suffix(trim(value), {"%"})
    IN  IF number.some THEN parse_number(number.rest) ELSE MemError

\* A parser that takes every container for the trial's backend.
name_matches_any(name, prefix) == TRUE

\* if !name.starts_with(&self.name_prefix) { return Ok(None); }
name_matches(name, prefix) == starts_with(name, prefix)

\* LineParser::parse: "none" for Ok(None), "point" for Ok(Some(point)),
\* "error" for Err.
parse_line(prefix, line) ==
    LET stripped == strip_escapes(line.tokens)
        object   == line.object
        memory   == parse_mem_current_max(object.MemUsage, GiB)
        cpu      == parse_percentage(object.CPUPerc)
        block_io == parse_mem_current_max(object.BlockIO, GB)
        net_io   == parse_mem_current_max(object.NetIO, GB)
    IN  IF stripped = <<>> THEN [kind |-> "none"]
        ELSE IF ~from_str_ok(trim(stripped), object) THEN [kind |-> "error"]
        ELSE IF ~name_matches(object.Name, prefix) THEN [kind |-> "none"]
        ELSE IF memory.ok /\ cpu.ok /\ block_io.ok /\ net_io.ok
             THEN [kind |-> "point",
                   point |-> [memory |-> memory, cpu |-> cpu,
                              block_io |-> block_io, net_io |-> net_io]]
             ELSE [kind |-> "error"]

(***************************************************************************)
(* docker.rs: DockerStatScanner::start / stop, the scan task it spawns,    *)
(* the docker process and the owner of the scanner.                        *)
(***************************************************************************)
MaxPoints == 2

RECURSIVE Pow(_, _)
Pow(b, n) == IF n = 0 THEN 1 ELSE b * Pow(b, n - 1)

\* The value as a whole number of units 2^s2 * 5^s5.
InUnits(v, s2, s5) ==
    (IF v.neg THEN -1 ELSE 1) * v.m * Pow(2, v.e2 - s2) * Pow(5, v.e5 - s5)

\* a <= b on values
ValueLeq(a, b) ==
    InUnits(a, Min(a.e2, b.e2), Min(a.e5, b.e5))
        <= InUnits(b, Min(a.e2, b.e2), Min(a.e5, b.e5))

\* f64::max, f64::min
fmax(a, b) == IF ValueLeq(a, b) THEN b ELSE a

fmin(a, b) == IF ValueLeq(a, b) THEN a ELSE b

ZeroValue == Normal(FALSE, 0, 0, 0)

\* Stat::default(): max and min 0.0 and an empty accumulator; dist is held
\* as the values it was updated with.
DefaultStat == [max |-> ZeroValue, min |-> ZeroValue, dist |-> <<>>]

\* Stat::update
stat_update(stat, value) ==
    [max |-> fmax(stat.max, value),
     min |-> fmin(stat.min, value),
     dist |-> Append(stat.dist, value)]

\* DockerStats::default()
DefaultStats ==
    [memory |-> DefaultStat, cpu |-> DefaultStat,
     block_io |-> DefaultStat, net_io |-> DefaultStat]

\* DockerStats::update
stats_update(st, stat_point) ==
    [memory |-> stat_update(st.memory, stat_point.memory),
     cpu |-> stat_update(st.cpu, stat_point.cpu),
     block_io |-> stat_update(st.block_io, stat_point.block_io),
     net_io |-> stat_update(st.net_io, stat_point.net_io)]

\* A select! without the stop branch.
stop_ready_never(channel) == FALSE

\* `stop = &mut receiver`: the receiver resolves once Stop was sent or the
\* sender was dropped
stop_ready(channel) == channel \in {"sent", "closed"}

\* A process spawned without kill_on_drop.
left_on_drop(process) == process

\* .kill_on_drop(true): the Child is dropped when the task returns;
\* handle.start_kill() before Ok(stats) does the same to a running process
kill_on_drop(process) == IF process = "running" THEN "killed" ELSE process

EmptyLine == [tokens |-> <<>>, object |-> NoObject]

ScanIdle ==
    /\ scanner = "none"
    /\ scanPc = "none"
    /\ scanResult = "none"
    /\ child = "unspawned"
    /\ stopCh = "open"
    /\ stats = DefaultStats
    /\ scLine = EmptyLine
    /\ scTick = 0
    /\ scReturned = <<>>

\* DockerStatScanner::start returned Ok(Self { handle, sender }): the task
\* is spawned and has not run yet.
ScanInit ==
    /\ scanner = "held"
    /\ scanPc = "spawned"
    /\ scanResult = "none"
    /\ child = "unspawned"
    /\ stopCh = "open"
    /\ stats = DefaultStats
    /\ scLine = EmptyLine
    /\ scTick = 0
    /\ scReturned = <<>>

\* The head of the task: Command::new("docker")...spawn()? and the reader.
TaskStart ==
    /\ scanPc = "spawned"
    /\ \E spawned \in BOOLEAN :
          IF spawned
          THEN /\ child' = "running"
               /\ scanPc' = "reading"
               /\ scanResult' = scanResult
          ELSE /\ child' = child
               /\ scanPc' = "ended"
               /\ scanResult' = "err"
    /\ UNCHANGED <<scanner, stopCh, stats, scLine, scTick, scReturned>>
    /\ UNCHANGED scanOthers

\* select! takes the line branch with Some(line): the line is parsed; a
\* point updates the statistics, an error returns from the task (`?`),
\* which drops the Child.
ReadLine ==
    /\ scanPc = "reading"
    /\ child = "running"
    /\ \E line \in ScanLines :
          LET parsed == parse_line(NamePrefix, line)
          IN  /\ parsed.kind = "point" => Len(stats.memory.dist) < MaxPoints
              /\ scLine' = line
              /\ stats' = IF parsed.kind = "point"
                          THEN stats_update(stats, parsed.point) ELSE stats
              /\ scanPc' = IF parsed.kind = "error" THEN "ended" ELSE scanPc
              /\ scanResult' = IF parsed.kind = "error" THEN "err" ELSE scanResult
              /\ child' = IF parsed.kind = "error" THEN kill_on_drop(child) ELSE child
    /\ scTick' = 1 - scTick
    /\ UNCHANGED <<scanner, stopCh, scReturned>>
    /\ UNCHANGED scanOthers

\* The docker process ends by itself.
ChildExits ==
    /\ child = "running"
    /\ child' = "exited"
    /\ UNCHANGED <<scanner, scanPc, scanResult, stopCh, stats, scLine, scTick,
                   scReturned>>
    /\ UNCHANGED scanOthers

\* select! takes the line branch with None (end of output): break,
\* drop(lines), handle.start_kill()?, Ok(stats).
ReadEof ==
    /\ scanPc = "reading"
    /\ child = "exited"
    /\ scanPc' = "ended"
    /\ scanResult' = "ok"
    /\ child' = kill_on_drop(child)
    /\ UNCHANGED <<scanner, stopCh, stats, scLine, scTick, scReturned>>
    /\ UNCHANGED scanOthers

\* select! takes the stop branch: Ok(Stop) breaks the loop and the task
\* returns Ok(stats) after start_kill; Err (sender dropped) returns from
\* the task by `stop?`.
TakeStop ==
    /\ scanPc = "reading"
    /\ stop_ready(stopCh)
    /\ scanPc' = "ended"
    /\ scanResult' = IF stopCh = "sent" THEN "ok" ELSE "err"
    /\ child' = kill_on_drop(child)
    /\ UNCHANGED <<scanner, stopCh, stats, scLine, scTick, scReturned>>
    /\ UNCHANGED scanOthers

\* stop(self) up to its await: self.sender.send(Stop).ok(); the send fails
\* and is ignored when the task has ended and dropped the receiver.
Stop ==
    /\ scanner = "held"
    /\ scanner' = "stopping"
    /\ stopCh' = IF scanPc # "ended" THEN "sent" ELSE stopCh
    /\ UNCHANGED <<scanPc, scanResult, child, stats, scLine, scTick, scReturned>>
    /\ UNCHANGED scanOthers

\* self.handle.await? yields the task's result.
StopReturns ==
    /\ scanner = "stopping"
    /\ scanPc = "ended"
    /\ scanner' = "returned"
    /\ scReturned' = Append(scReturned, scanResult)
    /\ UNCHANGED <<scanPc, scanResult, child, stopCh, stats, scLine, scTick>>
    /\ UNCHANGED scanOthers

\* The owner drops the scanner without calling stop: the JoinHandle
\* detaches the task and the sender is dropped.
DropScanner ==
    /\ scanner = "held"
    /\ scanner' = "dropped"
    /\ stopCh' = "closed"
    /\ UNCHANGED <<scanPc, scanResult, child, stats, scLine, scTick, scReturned>>
    /\ UNCHANGED scanOthers

ScanNext ==
    \/ TaskStart
    \/ ReadLine
    \/ ChildExits
    \/ ReadEof
    \/ TakeStop
    \/ Stop
    \/ StopReturns
    \/ DropScanner

\* The runtime runs a spawned task and wakes a task whose future is
\* ready; select! picks among its ready branches at random, so a branch
\* that stays ready is taken in the end.
ScanFairness ==
    /\ WF_vars(TaskStart)
    /\ WF_vars(TakeStop)
    /\ WF_vars(ReadEof)
    /\ WF_vars(StopReturns)

\* C14: once stop() has sent Stop the scan task leaves its loop and ends,
\* and stop() returns; when it has returned the task has ended and the
\* docker process is not running; the result is returned once, and a
\* scanner that was stopped or dropped is never held again.
C14_ScannerStop ==
    /\ (stopCh = "sent") ~> (scanPc = "ended")
    /\ (scanner = "stopping") ~> (scanner = "returned")
    /\ [](scanner = "returned" =>
            /\ scanPc = "ended"
            /\ child # "running"
            /\ scReturned = <<scanResult>>)
    /\ [](Len(scReturned) <= 1)
    /\ [][/\ scanner # "held" => scanner' # "held"
          /\ scanner = "returned" => scanner' = "returned" /\ scReturned' = scReturned
          /\ scanner = "dropped" => scanner' = "dropped"]_vars

\* C14 witness: stop() returned Ok with two points aggregated and the
\* docker process killed.
C14_Witness ==
    /\ scanner = "returned"
    /\ scReturned = <<"ok">>
    /\ stopCh = "sent"
    /\ child = "killed"
    /\ Len(stats.memory.dist) = 2

\* C15 as stated: once the scanner is dropped without stop() while the
\* docker process runs, the process keeps running and the task keeps
\* reading for ever.
C15_DroppedScannerLeaks ==
    []((scanner = "dropped" /\ child = "running") =>
           [](child = "running" /\ scanPc = "reading"))

\* C15, amended: dropping the scanner drops the sender, the stop branch
\* resolves with an error, the task returns Err and the docker process is
\* killed when the Child is dropped: a dropped scanner leads to an ended
\* task and a process that does not run, and nothing is returned.
C15_DroppedScannerEnds ==
    /\ (scanner = "dropped") ~> (scanPc = "ended" /\ child # "running")
    /\ [](scanner = "dropped" => scReturned = <<>> /\ stopCh = "closed")
    /\ [][(scanner = "dropped" /\ scanPc = "reading" /\ scanPc' = "ended"
              /\ scTick' = scTick /\ child = "running")
            => (scanResult' = "err" /\ child' = "killed")]_vars

\* C15 witness: the scanner was dropped while the process ran; the task
\* ended with an error and the process was killed.
C15_Witness ==
    /\ scanner = "dropped"
    /\ stopCh = "closed"
    /\ scanPc = "ended"
    /\ scanResult = "err"
    /\ child = "killed"
    /\ Len(stats.memory.dist) >= 1

\* The field strings that are not "<number><unit>" or "<number>%".
BadFieldStrings == {<<"1", " ", "G", "i", "B">>, <<"5">>, <<"2", "G", "b">>, <<>>}

\* The line is the text of an object with all five fields as strings,
\* between escape sequences and blanks.
WellFormedLine(line) ==
    /\ trim(strip_escapes(line.tokens)) = <<JsonText>>
    /\ StatFields \subseteq DOMAIN line.object

HasBadField(object) ==
    \E f \in StatFields \ {"Name"} : object[f] \in BadFieldStrings

\* C16: a line that is empty once its escape sequences are stripped, or
\* whose name does not start with the prefix, whatever its other fields
\* hold, leaves the statistics and the scan as they are; a line whose name
\* starts with the prefix and one of whose fields does not parse ends the
\* scan with an error, and an ended scan reads no further line; a line
\* with the prefix and good fields updates the statistics.
C16_LineHandling ==
    /\ [][scTick' # scTick =>
            /\ strip_escapes(scLine'.tokens) = <<>> =>
                  /\ stats' = stats
                  /\ scanPc' = "reading" /\ scanResult' = "none"
            /\ (WellFormedLine(scLine')
                  /\ ~starts_with(scLine'.object.Name, NamePrefix)) =>
                  /\ stats' = stats
                  /\ scanPc' = "reading" /\ scanResult' = "none"
            /\ (WellFormedLine(scLine')
                  /\ starts_with(scLine'.object.Name, NamePrefix)
                  /\ HasBadField(scLine'.object)) =>
                  /\ stats' = stats
                  /\ scanPc' = "ended" /\ scanResult' = "err"
            /\ (WellFormedLine(scLine')
                  /\ starts_with(scLine'.object.Name, NamePrefix)
                  /\ ~HasBadField(scLine'.object)) =>
                  /\ stats' # stats
                  /\ Len(stats'.cpu.dist) = Len(stats.cpu.dist) + 1
                  /\ scanPc' = "reading" /\ scanResult' = "none"]_vars
    /\ [][scanPc = "ended" =>
            /\ scanPc' = "ended"
            /\ scanResult' = scanResult
            /\ stats' = stats
            /\ scLine' = scLine
            /\ scTick' = scTick]_vars

\* C16 witness: after a point was aggregated, a line of the trial's
\* backend with a bad field ended the scan with an error.
C16_Witness ==
    /\ scanPc = "ended"
    /\ scanResult = "err"
    /\ WellFormedLine(scLine)
    /\ starts_with(scLine.object.Name, NamePrefix)
    /\ HasBadField(scLine.object)
    /\ Len(stats.memory.dist) = 1
    /\ child = "killed"

(***************************************************************************)
(* bin/stats.rs: calculate_stats, the offline scoring of one recorded      *)
(* entry (query index, returned neighbours) against the ground truth.      *)
(* Precision and recall are exact quotients [num, den].                    *)
(***************************************************************************)

\* The prefix of the ground truth and of the hits that calculate_stats
\* looks at: neighbors[idx][..10], got_neighbors.iter().take(10).
RecallAt == 10

\* Length of a row of the ground truth, and of the longest recorded hits.
MaxNeighbors == 12

MaxHits == MaxNeighbors

\* The queries with a recorded entry.
ScoredQueries == 0..1

\* The ground truth: row idx holds the true neighbours of query idx,
\* nearest first.
neighbors ==
    [idx \in ScoredQueries |->
        [i \in 1..MaxNeighbors |-> idx * MaxNeighbors + i]]

\* A document that is no true neighbour of any query.
Stranger(i) == 96 + i

\* What a backend may have returned for query idx: the true neighbours in
\* order, strangers only, eight true neighbours followed by strangers, the
\* true neighbours farthest first, and one true neighbour repeated.
HitOrders(idx) ==
    { [i \in 1..MaxHits |-> neighbors[idx][i]],
      [i \in 1..MaxHits |-> Stranger(i)],
      [i \in 1..MaxHits |-> IF i <= 8 THEN neighbors[idx][i] ELSE Stranger(i - 8)],
      [i \in 1..MaxHits |-> neighbors[idx][MaxNeighbors + 1 - i]],
      [i \in 1..MaxHits |-> neighbors[idx][1]] }

RecordedEntries ==
    { [idx |-> idx, got_neighbors |-> SubSeq(order, 1, n)] :
        idx \in ScoredQueries, order \in UNION {HitOrders(i) : i \in ScoredQueries},
        n \in 0..MaxHits }

Quotient(num, den) == [num |-> num, den |-> den]

SameQuotient(a, b) == a.num * b.den = b.num * a.den

\* got_neighbors.iter().take(10)
take_hits(got_neighbors) ==
    SubSeq(got_neighbors, 1, Min(Len(got_neighbors), RecallAt))

\* .filter(|got| expected_neighbors.contains(got)).count()
count_contained(hits, expected_neighbors) ==
    Cardinality({i \in 1..Len(hits) : hits[i] \in Range(expected_neighbors)})

\* The body of the loop over the recorded entries: the values fed to the
\* precision and the recall accumulator, or a panic when the row of the
\* ground truth is shorter than ten.
calculate_stats(header, data) ==
    IF Len(neighbors[data.idx]) < RecallAt
    THEN [panic |-> TRUE, precision |-> Quotient(0, 1), recall |-> Quotient(0, 1)]
    ELSE LET expected_neighbors == SubSeq(neighbors[data.idx], 1, RecallAt)
             true_positive ==
                 count_contained(take_hits(data.got_neighbors), expected_neighbors)
         IN  [panic |-> FALSE,
              precision |-> IF true_positive = 0
                            THEN Quotient(0, 1)
                            ELSE Quotient(true_positive, Len(data.got_neighbors)),
              recall |-> Quotient(true_positive, header)]

ScoreIdle ==
    /\ calcPc = "idle"
    /\ expected_hits = 0
    /\ entry = [idx |-> 0, got_neighbors |-> <<>>]
    /\ scored = [panic |-> FALSE, precision |-> Quotient(0, 1),
                 recall |-> Quotient(0, 1)]

\* recall_data.jsonl: the header the bench wrote (expected_hits: k, k >= 1)
\* and one entry of one line.
ScoreInit ==
    /\ calcPc = "start"
    /\ expected_hits \in 1..MaxNeighbors
    /\ entry \in RecordedEntries
    /\ scored = [panic |-> FALSE, precision |-> Quotient(0, 1),
                 recall |-> Quotient(0, 1)]

CalculateStats ==
    /\ calcPc = "start"
    /\ scored' = calculate_stats(expected_hits, entry)
    /\ calcPc' = IF scored'.panic THEN "panicked" ELSE "scored"
    /\ UNCHANGED <<expected_hits, entry>>
    /\ UNCHANGED scoreOthers

ScoreNext == CalculateStats

\* The reference scoring: the ground truth is the set of the first
\* expected_hits true neighbours, true_positive = |hits \cap expected|.
ExpectedSet(header, idx) ==
    Range(SubSeq(neighbors[idx], 1, Min(header, Len(neighbors[idx]))))

ReferenceTruePositive(header, data) ==
    Cardinality(Range(data.got_neighbors) \cap ExpectedSet(header, data.idx))

ReferencePrecision(header, data) ==
    IF Len(data.got_neighbors) = 0
    THEN Quotient(0, 1)
    ELSE Quotient(ReferenceTruePositive(header, data), Len(data.got_neighbors))

ReferenceRecall(header, data) ==
    Quotient(ReferenceTruePositive(header, data), header)

\* C18 as stated: for every recorded entry and every header value the
\* scored precision and recall are those of the reference, computed
\* against the first expected_hits true neighbours.
C18_ScoringMatchesReference ==
    calcPc = "scored" =>
        /\ SameQuotient(scored.precision, ReferencePrecision(expected_hits, entry))
        /\ SameQuotient(scored.recall, ReferenceRecall(expected_hits, entry))

\* Where code and reference do agree: the header is 10 and the hits are
\* at most ten distinct documents; 8 of 10 correct gives 4/5 and 4/5.
ScoringAtTen ==
    (/\ calcPc = "scored"
     /\ expected_hits = RecallAt
     /\ Len(entry.got_neighbors) <= RecallAt
     /\ Cardinality(Range(entry.got_neighbors)) = Len(entry.got_neighbors)) =>
        /\ SameQuotient(scored.precision, ReferencePrecision(expected_hits, entry))
        /\ SameQuotient(scored.recall, ReferenceRecall(expected_hits, entry))
        /\ (/\ Len(entry.got_neighbors) = RecallAt
            /\ \A i \in 1..RecallAt :
               entry.got_neighbors[i] =
                   (IF i <= 8 THEN neighbors[entry.idx][i] ELSE Stranger(i - 8)))
            => /\ SameQuotient(scored.precision, Quotient(4, 5))
               /\ SameQuotient(scored.recall, Quotient(4, 5))

(***************************************************************************)
(* resources.rs: ResourceWriter::write_file / append_line_to_file, and     *)
(* bin/stats.rs: retrieve_recall.  One bench directory, written by the     *)
(* trials that share its bench id and read by stats passes; a pass checks  *)
(* for recall.json and writes it in two separate file-system steps.        *)
(***************************************************************************)

\* Lines appended to recall_data.jsonl after its header.
MaxLines == 2

RecallDataFile == "recall_data.jsonl"

DockerStatsFile == "docker_stats.json"

RecallFile == "recall.json"

\* The files write_file is called for in a bench directory.
WrittenNames == {RecallDataFile, DockerStatsFile}

FileNames == WrittenNames \cup {RecallFile}

\* What a trial serializes: the value differs from trial to trial.
FileData == {1, 2}

Passes == {1, 2}

NoFile == [exists |-> FALSE, content |-> <<>>]

\* tick is the parity of the number of operations made.
NoOp == [op |-> "none", name |-> "", ok |-> TRUE, tick |-> 0]

\* File::options().write(true).create(true).truncate(true): opens any target.
create_opens(file) == TRUE

\* File::options().write(true).create_new(true).open(..): fails on an
\* existing target.
create_new_opens(file) == ~file.exists

\* File::options().append(true).open(..): fails on a missing target.
append_opens(file) == file.exists

\* serde_json::to_writer, write_all(b"\n"): one line.
written(data) == [exists |-> TRUE, content |-> <<data>>]

appended(file, data) == [exists |-> TRUE, content |-> Append(file.content, data)]

\* calculate_stats on the lines of recall_data.jsonl: the count of the
\* accumulators is the number of recorded lines after the header.
stats_of(file) == [header |-> file.content[1], count |-> Len(file.content) - 1]

FsIdle ==
    /\ files = [n \in FileNames |-> NoFile]
    /\ fsLast = NoOp
    /\ passPc = [p \in Passes |-> "none"]
    /\ passStats = [p \in Passes |-> <<>>]

\* sub_writer has created the (empty) bench directory.
FsInit ==
    /\ files = [n \in FileNames |-> NoFile]
    /\ fsLast = NoOp
    /\ passPc = [p \in Passes |-> "idle"]
    /\ passStats = [p \in Passes |-> <<>>]

\* ResourceWriter::write_file(name, data)
WriteFile(name, data) ==
    /\ passPc[1] # "none"
    /\ IF create_new_opens(files[name])
       THEN /\ files' = [files EXCEPT ![name] = written(data)]
            /\ fsLast' = [op |-> "write_file", name |-> name, ok |-> TRUE,
                       tick |-> 1 - fsLast.tick]
       ELSE /\ files' = files
            /\ fsLast' = [op |-> "write_file", name |-> name, ok |-> FALSE,
                       tick |-> 1 - fsLast.tick]
    /\ UNCHANGED <<passPc, passStats>>
    /\ UNCHANGED filesOthers

\* ResourceWriter::append_line_to_file("recall_data.jsonl", data)
AppendLineToFile(data) ==
    /\ passPc[1] # "none"
    /\ Len(files[RecallDataFile].content) <= MaxLines
    /\ IF append_opens(files[RecallDataFile])
       THEN /\ files' = [files EXCEPT
                           ![RecallDataFile] = appended(files[RecallDataFile], data)]
            /\ fsLast' = [op |-> "append", name |-> RecallDataFile, ok |-> TRUE,
                       tick |-> 1 - fsLast.tick]
       ELSE /\ files' = files
            /\ fsLast' = [op |-> "append", name |-> RecallDataFile, ok |-> FALSE,
                       tick |-> 1 - fsLast.tick]
    /\ UNCHANGED <<passPc, passStats>>
    /\ UNCHANGED filesOthers

\* retrieve_recall up to the computed stats: None without recall data, the
\* stored stats when recall.json exists, else calculate_stats.
RetrieveRecall(p) ==
    /\ passPc[p] = "idle"
    /\ IF ~files[RecallDataFile].exists
       THEN /\ passPc' = [passPc EXCEPT ![p] = "done"]
            /\ passStats' = [passStats EXCEPT ![p] = <<>>]
            /\ fsLast' = [op |-> "exists", name |-> RecallDataFile, ok |-> TRUE,
                       tick |-> 1 - fsLast.tick]
       ELSE IF files[RecallFile].exists
       THEN /\ passPc' = [passPc EXCEPT ![p] = "done"]
            /\ passStats' = [passStats EXCEPT ![p] = files[RecallFile].content]
            /\ fsLast' = [op |-> "read", name |-> RecallFile, ok |-> TRUE,
                       tick |-> 1 - fsLast.tick]
       ELSE /\ passPc' = [passPc EXCEPT ![p] = "computed"]
            /\ passStats' = [passStats EXCEPT
                               ![p] = <<stats_of(files[RecallDataFile])>>]
            /\ fsLast' = [op |-> "read", name |-> RecallDataFile, ok |-> TRUE,
                       tick |-> 1 - fsLast.tick]
    /\ UNCHANGED files
    /\ UNCHANGED filesOthers

\* retrieve_recall: File::options().create_new(true).write(true)
\*                      .open(&recall_file)?, to_writer, flush
WriteRecall(p) ==
    /\ passPc[p] = "computed"
    /\ IF create_new_opens(files[RecallFile])
       THEN /\ files' = [files EXCEPT
                           ![RecallFile] = written(passStats[p][1])]
            /\ passPc' = [passPc EXCEPT ![p] = "done"]
            /\ fsLast' = [op |-> "write_recall", name |-> RecallFile, ok |-> TRUE,
                       tick |-> 1 - fsLast.tick]
       ELSE /\ files' = files
            /\ passPc' = [passPc EXCEPT ![p] = "failed"]
            /\ fsLast' = [op |-> "write_recall", name |-> RecallFile, ok |-> FALSE,
                       tick |-> 1 - fsLast.tick]
    /\ UNCHANGED passStats
    /\ UNCHANGED filesOthers

\* The stats binary is run again.
NextPass(p) ==
    /\ passPc[p] \in {"done", "failed"}
    /\ passPc' = [passPc EXCEPT ![p] = "idle"]
    /\ passStats' = [passStats EXCEPT ![p] = <<>>]
    /\ UNCHANGED <<files, fsLast>>
    /\ UNCHANGED filesOthers

WriteSomeFile == \E name \in WrittenNames, data \in FileData : WriteFile(name, data)

AppendSomeLine == \E data \in FileData : AppendLineToFile(data)

RetrieveSomeRecall == \E p \in Passes : RetrieveRecall(p)

WriteSomeRecall == \E p \in Passes : WriteRecall(p)

SomeNextPass == \E p \in Passes : NextPass(p)

FsNext ==
    \/ WriteSomeFile
    \/ AppendSomeLine
    \/ RetrieveSomeRecall
    \/ WriteSomeRecall
    \/ SomeNextPass

IsPrefix(s, t) == Len(s) <= Len(t) /\ SubSeq(t, 1, Len(s)) = s

WriteOps == {"write_file", "write_recall"}

\* C19: a write_file, or the stats pass's write of recall.json, whose
\* target exists fails and changes no file; a file that exists keeps
\* existing, and its content changes only by lines appended to
\* recall_data.jsonl: what was written stays as it was written.
C19_WriteOnce ==
    [][/\ \A n \in FileNames :
            /\ (fsLast' # fsLast /\ fsLast'.op \in WriteOps /\ fsLast'.name = n
                  /\ files[n].exists)
                 => (~fsLast'.ok /\ files' = files)
            /\ (fsLast' # fsLast /\ fsLast'.op \in WriteOps /\ fsLast'.name = n
                  /\ ~files[n].exists)
                 => (fsLast'.ok /\ files'[n].exists /\ Len(files'[n].content) = 1)
            /\ files[n].exists =>
                 /\ files'[n].exists
                 /\ IsPrefix(files[n].content, files'[n].content)
                 /\ n # RecallDataFile => files'[n] = files[n]
       /\ (fsLast' = fsLast) => files' = files]_vars

\* C19 witness: a second trial's write_file on the existing
\* docker_stats.json has just failed, while recall.json, written by a
\* pass, and a recall log with an appended line exist; another pass that
\* computed its stats before recall.json existed failed to write it.
C19_Witness ==
    /\ fsLast.op = "write_file" /\ fsLast.name = DockerStatsFile /\ ~fsLast.ok
    /\ files[DockerStatsFile].exists
    /\ files[RecallFile].exists
    /\ Len(files[RecallDataFile].content) = 2
    /\ \E p \in Passes : passPc[p] = "failed"

(***************************************************************************)
(* math.rs: WelfordOnlineAlgorithm.  The f64 values are exact quotients    *)
(* [num, den] in lowest terms with den > 0; 0/0 is NaN, written 0/0.       *)
(***************************************************************************)

\* How many values are fed to one accumulator.
MaxInputs == 3

Abs(n) == IF n < 0 THEN 0 - n ELSE n

RECURSIVE Gcd(_, _)
Gcd(a, b) == IF b = 0 THEN a ELSE Gcd(b, a % b)

NaN == Quotient(0, 0)

IsNaN(q) == q.den = 0

Norm(q) ==
    IF q.den = 0 THEN NaN
    ELSE LET g == Gcd(Abs(q.num), Abs(q.den))
             sign == IF q.den < 0 THEN 0 - 1 ELSE 1
         IN  Quotient(sign * (q.num \div g), sign * (q.den \div g))

QInt(n) == Quotient(n, 1)

QAdd(a, b) ==
    IF IsNaN(a) \/ IsNaN(b) THEN NaN
    ELSE LET g == Gcd(a.den, b.den)
         IN  Norm(Quotient(a.num * (b.den \div g) + b.num * (a.den \div g),
                           (a.den \div g) * b.den))

QSub(a, b) == QAdd(a, Quotient(0 - b.num, b.den))

QMul(a, b) ==
    IF IsNaN(a) \/ IsNaN(b) THEN NaN
    ELSE LET a1 == Norm(Quotient(a.num, b.den))
             b1 == Norm(Quotient(b.num, a.den))
         IN  Norm(Quotient(a1.num * b1.num, a1.den * b1.den))

\* f64 division; the only division by zero the accumulator can make is 0/0.
QDiv(a, b) ==
    IF IsNaN(a) \/ IsNaN(b) \/ b.num = 0 THEN NaN
    ELSE QMul(a, Quotient(b.den, b.num))

\* #[derive(Default)]
WelfordDefault == [count |-> 0, mean |-> QInt(0), m2 |-> QInt(0)]

\* WelfordOnlineAlgorithm::update
update(self, new_value) ==
    LET count == self.count + 1
        diff1 == QSub(new_value, self.mean)
        mean  == QAdd(self.mean, QDiv(diff1, QInt(count)))
        diff2 == QSub(new_value, mean)
    IN  [count |-> count, mean |-> mean, m2 |-> QAdd(self.m2, QMul(diff1, diff2))]

mean_of(self) == self.mean

variance(self) == QDiv(self.m2, QInt(self.count))

\* The divisor of sample_variance, were it that of variance.
sample_divisor_population(count) == QInt(count)

\* self.count as f64 - 1.
sample_divisor(count) == QSub(QInt(count), QInt(1))

sample_variance(self) == QDiv(self.m2, sample_divisor(self.count))

Tenths(n) == Norm(Quotient(n, 10))

\* The values of the unit test, and a zero and a negative value.
WfValues == {Tenths(12), Tenths(32), Tenths(123), Tenths(0), Tenths(0 - 50)}

WfSequences == UNION {[1..n -> WfValues] : n \in 0..MaxInputs}

WfIdle ==
    /\ wfInputs = <<>>
    /\ wfFed = 0 - 1
    /\ wf = WelfordDefault

WfInit ==
    /\ wfInputs \in WfSequences
    /\ wfFed = 0
    /\ wf = WelfordDefault

Update ==
    /\ wfFed >= 0
    /\ wfFed < Len(wfInputs)
    /\ wf' = update(wf, wfInputs[wfFed + 1])
    /\ wfFed' = wfFed + 1
    /\ UNCHANGED wfInputs
    /\ UNCHANGED welfordOthers

WfNext == Update

\* The closed forms over the values fed so far.
RECURSIVE SumOf(_, _)
SumOf(xs, n) == IF n = 0 THEN QInt(0) ELSE QAdd(SumOf(xs, n - 1), xs[n])

ArithmeticMean(xs, n) == QDiv(SumOf(xs, n), QInt(n))

RECURSIVE SquaredDeviations(_, _, _)
SquaredDeviations(xs, n, centre) ==
    IF n = 0 THEN QInt(0)
    ELSE QAdd(SquaredDeviations(xs, n - 1, centre),
              QMul(QSub(xs[n], centre), QSub(xs[n], centre)))

M2Of(xs, n) == SquaredDeviations(xs, n, ArithmeticMean(xs, n))

\* lo <= sqrt(q) < hi, for non-negative integers lo and hi.
RootBetween(q, lo, hi) ==
    /\ lo * lo * q.den <= q.num
    /\ q.num < hi * hi * q.den

UnitTestInputs == <<Tenths(12), Tenths(32), Tenths(123)>>

\* C20: after n >= 1 updates on a fresh accumulator count is n, mean is
\* the arithmetic mean of the values fed, variance() is their population
\* variance M2/n and sample_variance() is M2/(n-1) (0/0 for n = 1); for
\* 1.2, 3.2, 12.3 the mean is 167/30 = 5.5666.., the population variance
\* is 10501/450 with root in [4.83, 4.84) and the sample variance is
\* 10501/300 with root in [5.91, 5.92).
C20_Welford ==
    /\ wfFed >= 1 =>
        /\ wf.count = wfFed
        /\ mean_of(wf) = ArithmeticMean(wfInputs, wfFed)
        /\ wf.m2 = M2Of(wfInputs, wfFed)
        /\ variance(wf) = QDiv(M2Of(wfInputs, wfFed), QInt(wfFed))
        /\ wfFed >= 2 =>
             sample_variance(wf) = QDiv(M2Of(wfInputs, wfFed), QInt(wfFed - 1))
        /\ wfFed = 1 => IsNaN(sample_variance(wf))
    /\ (wfFed = 3 /\ wfInputs = UnitTestInputs) =>
        /\ mean_of(wf) = Quotient(167, 30)
        /\ variance(wf) = Quotient(10501, 450)
        /\ RootBetween(Norm(Quotient(variance(wf).num * 100 * 100, variance(wf).den)),
                       483, 484)
        /\ sample_variance(wf) = Quotient(10501, 300)
        /\ RootBetween(Norm(Quotient(sample_variance(wf).num * 100 * 100,
                                     sample_variance(wf).den)), 591, 592)

\* C20 witness: the three values of the unit test have been fed.
C20_Witness ==
    /\ wfInputs = UnitTestInputs
    /\ wfFed = 3
    /\ wf.count = 3
    /\ wf.mean = Quotient(167, 30)
    /\ wf.m2 = Quotient(10501, 150)

(***************************************************************************)
(* math.rs, docker.rs: the fold of samples into a Stat, in f64.  An f64    *)
(* operation rounds its exact result to the nearest value with 53          *)
(* significant bits, ties to even; the model rounds to Precision bits.     *)
(***************************************************************************)

\* Significant bits of the modelled floating-point format.
Precision == 4

\* Samples folded into one aggregate.
MaxSamples == 3

QNeg(a) == Quotient(0 - a.num, a.den)

QLeq(a, b) == a.num * b.den <= b.num * a.den

\* The magnitude a as [q, e] with a = q * 2^e and 2^(Precision-1) <= q < 2^Precision.
RECURSIVE Scaling(_, _)
Scaling(a, e) ==
    IF a.num >= Pow(2, Precision) * a.den
    THEN Scaling(Norm(Quotient(a.num, 2 * a.den)), e + 1)
    ELSE IF a.num < Pow(2, Precision - 1) * a.den
    THEN Scaling(Norm(Quotient(2 * a.num, a.den)), e - 1)
    ELSE [q |-> a, e |-> e]

\* Round to nearest, ties to even, of a scaled magnitude to an integer.
round_ties_even(q) ==
    LET n == q.num \div q.den
        twice_rest == 2 * (q.num % q.den)
    IN  IF twice_rest > q.den \/ (twice_rest = q.den /\ n % 2 = 1)
        THEN n + 1 ELSE n

TwoTo(e) == IF e >= 0 THEN QInt(Pow(2, e)) ELSE Quotient(1, Pow(2, 0 - e))

\* The floating-point value nearest to the exact result q.
fl(q) ==
    IF IsNaN(q) \/ q.num = 0 THEN q
    ELSE LET magnitude == Quotient(Abs(q.num), q.den)
             sc == Scaling(magnitude, 0)
             rounded == QMul(QInt(round_ties_even(sc.q)), TwoTo(sc.e))
         IN  IF q.num < 0 THEN QNeg(rounded) ELSE rounded

\* WelfordOnlineAlgorithm::update in f64: every operation rounds.
update_f64(self, new_value) ==
    LET count == self.count + 1
        diff1 == fl(QSub(new_value, self.mean))
        mean  == fl(QAdd(self.mean, fl(QDiv(diff1, QInt(count)))))
        diff2 == fl(QSub(new_value, mean))
    IN  [count |-> count, mean |-> mean,
         m2 |-> fl(QAdd(self.m2, fl(QMul(diff1, diff2))))]

\* A fold that keeps the value delivered last.
keep_last(kept, value) == value

\* self.max.max(value)
keep_max(kept, value) == IF QLeq(kept, value) THEN value ELSE kept

\* self.min.min(value)
keep_min(kept, value) == IF QLeq(kept, value) THEN kept ELSE value

\* Stat::default(), with the accumulator of the exact fold beside it.
FoldDefault ==
    [max |-> QInt(0), min |-> QInt(0), dist |-> WelfordDefault,
     exact |-> WelfordDefault]

\* Stat::update; the precision and recall accumulators of calculate_stats
\* are updated by the same WelfordOnlineAlgorithm::update.
fold_update(stat, value) ==
    [max |-> keep_max(stat.max, value),
     min |-> keep_min(stat.min, value),
     dist |-> update_f64(stat.dist, value),
     exact |-> update(stat.exact, value)]

\* Samples: whole numbers, representable in the format without rounding.
FoldSamples == {QInt(0), QInt(1), QInt(2), QInt(3)}

Orders == {1, 2}

IsPermutation(s, t) ==
    /\ Len(s) = Len(t)
    /\ \E f \in [1..Len(s) -> 1..Len(s)] :
          /\ \A i, j \in 1..Len(s) : i # j => f[i] # f[j]
          /\ \A i \in 1..Len(s) : t[i] = s[f[i]]

FoldSequences == UNION {[1..n -> FoldSamples] : n \in 0..MaxSamples}

FoldIdle ==
    /\ delivered = [o \in Orders |-> <<>>]
    /\ folded = 0 - 1
    /\ aggregate = [o \in Orders |-> FoldDefault]

\* The workers deliver the same samples in two orders.
FoldInit ==
    /\ delivered \in [Orders -> FoldSequences]
    /\ IsPermutation(delivered[1], delivered[2])
    /\ folded = 0
    /\ aggregate = [o \in Orders |-> FoldDefault]

FoldIn ==
    /\ folded >= 0
    /\ folded < Len(delivered[1])
    /\ aggregate' = [o \in Orders |->
                       fold_update(aggregate[o], delivered[o][folded + 1])]
    /\ folded' = folded + 1
    /\ UNCHANGED delivered
    /\ UNCHANGED foldOthers

FoldNext == FoldIn

AllFolded == folded >= 1 /\ folded = Len(delivered[1])

\* C21 as stated: the aggregates of two orders of the same samples have
\* the same count, mean and variance.
C21_OrderIndependent ==
    AllFolded =>
        /\ aggregate[1].dist.count = aggregate[2].dist.count
        /\ mean_of(aggregate[1].dist) = mean_of(aggregate[2].dist)
        /\ variance(aggregate[1].dist) = variance(aggregate[2].dist)

\* C21, amended: the count, the max and the min of the two aggregates are
\* equal, and so are mean and variance of the fold without rounding; the
\* f64 mean and variance may differ, by rounding only: a fold whose f64
\* operations are all exact gives the same in both orders.
C21_OrderIndependentUpToRounding ==
    AllFolded =>
        /\ aggregate[1].dist.count = aggregate[2].dist.count
        /\ aggregate[1].dist.count = folded
        /\ aggregate[1].max = aggregate[2].max
        /\ aggregate[1].min = aggregate[2].min
        /\ aggregate[1].exact = aggregate[2].exact
        /\ (\A o \in Orders : aggregate[o].dist = aggregate[o].exact)
              => aggregate[1].dist = aggregate[2].dist

\* C21 witness: three samples folded in two different orders; the exact
\* means agree and the f64 means do not.
C21_Witness ==
    /\ AllFolded
    /\ folded = 3
    /\ delivered[1] # delivered[2]
    /\ aggregate[1].exact.mean = aggregate[2].exact.mean
    /\ aggregate[1].dist.mean # aggregate[2].dist.mean
    /\ aggregate[1].max = aggregate[2].max

(***************************************************************************)
(* databases/elasticsearch.rs, qdrant.rs, vespa.rs: what an adapter's      *)
(* query makes of the backend's response.  A hit is [id, score]; a higher  *)
(* score is a more relevant hit, and a backend answers most relevant first.*)
(***************************************************************************)

\* Hits in one response.
MaxReturned == 3

Backends == {"elasticsearch", "qdrant", "vespa"}

HitIds == 1..MaxReturned

HitScores == 1..(MaxReturned + 1)

DistinctHits(hits) ==
    \A i, j \in 1..Len(hits) :
        i # j => (hits[i].id # hits[j].id /\ hits[i].score # hits[j].score)

DescendingScore(hits) ==
    \A i \in 1..(Len(hits) - 1) : hits[i].score > hits[i + 1].score

\* The responses of a backend: hits with distinct ids and scores, most
\* relevant first, and the number of documents that matched.
Responses ==
    { [hits |-> hits, total_count |-> Len(hits) + more] :
        hits \in { h \in UNION {[1..n -> [id : HitIds, score : HitScores]] :
                                   n \in 0..MaxReturned} :
                     DistinctHits(h) /\ DescendingScore(h) },
        more \in 0..1 }

\* Vec::insert of a hit behind the hits that do not compare greater:
\* l.score.total_cmp(&r.score), stable.
RECURSIVE insert_by_score(_, _)
insert_by_score(sorted, hit) ==
    IF sorted = <<>> THEN <<hit>>
    ELSE IF sorted[Len(sorted)].score <= hit.score
    THEN Append(sorted, hit)
    ELSE Append(insert_by_score(SubSeq(sorted, 1, Len(sorted) - 1), hit),
                sorted[Len(sorted)])

\* results.sort_by(|l, r| l.score.total_cmp(&r.score))
RECURSIVE sort_by_score(_)
sort_by_score(results) ==
    IF results = <<>> THEN <<>>
    ELSE insert_by_score(sort_by_score(SubSeq(results, 1, Len(results) - 1)),
                         results[Len(results)])

\* .into_iter().map(|hit| hit.id).collect()
hit_ids(results) == [i \in 1..Len(results) |-> results[i].id]

\* Elasticsearch::query
elasticsearch_query(response) ==
    [ok |-> TRUE, ids |-> hit_ids(sort_by_score(response.hits))]

\* Qdrant::query
qdrant_query(response) == [ok |-> TRUE, ids |-> hit_ids(response.hits)]

\* Vespa::query: bails when min(total_count, k) != got_count
vespa_query(k, response) ==
    IF Min(response.total_count, k) # Len(response.hits)
    THEN [ok |-> FALSE, ids |-> <<>>]
    ELSE [ok |-> TRUE, ids |-> hit_ids(response.hits)]

NoResponse == [hits |-> <<>>, total_count |-> 0]

NoAnswer == [ok |-> FALSE, ids |-> <<>>]

AdapterIdle ==
    /\ adPc = "idle"
    /\ adBackend = "none"
    /\ adK = 0
    /\ adResponse = NoResponse
    /\ adAnswer = NoAnswer

\* A query with limit k is awaiting the backend's response.
AdapterInit ==
    /\ adPc = "awaiting"
    /\ adBackend \in Backends
    /\ adK \in 1..MaxReturned
    /\ adResponse \in Responses
    /\ Len(adResponse.hits) <= adK
    /\ adAnswer = NoAnswer

ElasticsearchQuery ==
    /\ adPc = "awaiting"
    /\ adBackend = "elasticsearch"
    /\ adAnswer' = elasticsearch_query(adResponse)
    /\ adPc' = "answered"
    /\ UNCHANGED <<adBackend, adK, adResponse>>
    /\ UNCHANGED adapterOthers

QdrantQuery ==
    /\ adPc = "awaiting"
    /\ adBackend = "qdrant"
    /\ adAnswer' = qdrant_query(adResponse)
    /\ adPc' = "answered"
    /\ UNCHANGED <<adBackend, adK, adResponse>>
    /\ UNCHANGED adapterOthers

VespaQuery ==
    /\ adPc = "awaiting"
    /\ adBackend = "vespa"
    /\ adAnswer' = vespa_query(adK, adResponse)
    /\ adPc' = "answered"
    /\ UNCHANGED <<adBackend, adK, adResponse>>
    /\ UNCHANGED adapterOthers

AdapterNext ==
    \/ ElasticsearchQuery
    \/ QdrantQuery
    \/ VespaQuery

ScoreOf(id) ==
    LET i == CHOOSE i \in 1..Len(adResponse.hits) : adResponse.hits[i].id = id
    IN  adResponse.hits[i].score

\* C22 as stated: the identifiers an adapter returns are ordered most
\* relevant first; the highest-scoring hit comes first and the
\* lowest-scoring last.
C22_MostRelevantFirst ==
    (adPc = "answered" /\ adAnswer.ok) =>
        /\ Len(adAnswer.ids) = Len(adResponse.hits)
        /\ \A i \in 1..(Len(adAnswer.ids) - 1) :
              ScoreOf(adAnswer.ids[i]) > ScoreOf(adAnswer.ids[i + 1])

\* What holds of the Elasticsearch adapter: its identifiers come least
\* relevant first; the other two keep the backend's order.
AdapterOrders ==
    (adPc = "answered" /\ adAnswer.ok) =>
        /\ Len(adAnswer.ids) = Len(adResponse.hits)
        /\ \A i \in 1..(Len(adAnswer.ids) - 1) :
              IF adBackend = "elasticsearch"
              THEN ScoreOf(adAnswer.ids[i]) < ScoreOf(adAnswer.ids[i + 1])
              ELSE ScoreOf(adAnswer.ids[i]) > ScoreOf(adAnswer.ids[i + 1])

(***************************************************************************)
(* bin/stats.rs: main's report of a trial's docker_stats.json, and         *)
(* docker.rs: Stat::sample_std.  The file holds what the trial's scanner   *)
(* folded in; values are exact quotients.                                  *)
(***************************************************************************)

\* Snapshots the scanner folded in during one trial.
MaxSnapshots == 3

\* What one line of docker stats gave: cpu percent and memory.
Snapshots == [cpu : {QInt(0), QInt(1), QInt(2)}, memory : {QInt(1), QInt(2)}]

SnapshotSequences == UNION {[1..n -> Snapshots] : n \in 0..MaxSnapshots}

\* Stat::default() and Stat::update, dist a WelfordOnlineAlgorithm
ReportStatDefault == [max |-> QInt(0), min |-> QInt(0), dist |-> WelfordDefault]

report_stat_update(stat, value) ==
    [max |-> keep_max(stat.max, value),
     min |-> keep_min(stat.min, value),
     dist |-> update(stat.dist, value)]

\* The DockerStats after the snapshots of the trial, cpu and memory of it.
RECURSIVE FoldSnapshots(_, _)
FoldSnapshots(snapshots, n) ==
    IF n = 0 THEN [cpu |-> ReportStatDefault, memory |-> ReportStatDefault]
    ELSE LET before == FoldSnapshots(snapshots, n - 1)
         IN  [cpu |-> report_stat_update(before.cpu, snapshots[n].cpu),
              memory |-> report_stat_update(before.memory, snapshots[n].memory)]

\* The calls of WelfordOnlineAlgorithm::sample_variance that
\* Stat::sample_std makes: always one, with whatever count the
\* accumulator has.
sample_std_call(stat) == <<stat.dist.count>>

\* Stat::sample_std, before the square root
sample_std_squared(stat) == sample_variance(stat.dist)

NoStatsFile == [exists |-> FALSE, stats |-> FoldSnapshots(<<>>, 0)]

ReportIdle ==
    /\ repPc = "idle"
    /\ repSnapshots = <<>>
    /\ repFile = NoStatsFile
    /\ repCalls = <<>>
    /\ repPrinted = <<>>

\* A bench directory: without docker_stats.json, or with the one the trial
\* wrote after stopping its scanner.
ReportInit ==
    /\ repPc = "start"
    /\ repSnapshots \in SnapshotSequences
    /\ \/ repFile = NoStatsFile /\ repSnapshots = <<>>
       \/ repFile = [exists |-> TRUE,
                     stats |-> FoldSnapshots(repSnapshots, Len(repSnapshots))]
    /\ repCalls = <<>>
    /\ repPrinted = <<>>

\* retrieve_docker_stats
RetrieveDockerStats ==
    /\ repPc = "start"
    /\ repPc' = IF repFile.exists THEN "loaded" ELSE "done"
    /\ UNCHANGED <<repSnapshots, repFile, repCalls, repPrinted>>
    /\ UNCHANGED reportOthers

\* println!("{run} cpu ..", mean, max, std = docker_stats.cpu.sample_std())
PrintCpu ==
    /\ repPc = "loaded"
    /\ repCalls' = repCalls \o sample_std_call(repFile.stats.cpu)
    /\ repPrinted' = Append(repPrinted, sample_std_squared(repFile.stats.cpu))
    /\ repPc' = "cpu_printed"
    /\ UNCHANGED <<repSnapshots, repFile>>
    /\ UNCHANGED reportOthers

\* println!("{run} memory ..", mean, max, std = docker_stats.memory.sample_std())
PrintMemory ==
    /\ repPc = "cpu_printed"
    /\ repCalls' = repCalls \o sample_std_call(repFile.stats.memory)
    /\ repPrinted' = Append(repPrinted, sample_std_squared(repFile.stats.memory))
    /\ repPc' = "done"
    /\ UNCHANGED <<repSnapshots, repFile>>
    /\ UNCHANGED reportOthers

ReportNext ==
    \/ RetrieveDockerStats
    \/ PrintCpu
    \/ PrintMemory

\* C23 as stated: sample_variance is never evaluated on an accumulator
\* with count < 2, whatever the number of snapshots of the trial.
C23_SampleVarianceGuarded ==
    \A i \in 1..Len(repCalls) : repCalls[i] >= 2

\* What holds instead: the report evaluates sample_variance on whatever
\* count the trial reached; with one snapshot the value is 0/0, NaN, and
\* with none it is 0/(0 - 1).
ReportPrintsNaN ==
    (repPc = "done" /\ repFile.exists) =>
        /\ Len(repCalls) = 2
        /\ \A i \in 1..2 :
              /\ repCalls[i] = Len(repSnapshots)
              /\ IsNaN(repPrinted[i]) <=> Len(repSnapshots) = 1

(***************************************************************************)
(* databases/vespa.rs: yql_build_query.  The query string is held as the   *)
(* sequence of the pieces pushed onto it: literals, numbers and labels.    *)
(***************************************************************************)

\* The pieces: a literal, a number written in decimal ({n}), and a label
\* written as its quoted fake uuid ({label:?}).
Lit(text) == [kind |-> "lit", text |-> text, num |-> 0]

Num(n) == [kind |-> "num", text |-> "", num |-> n]

Quoted(label) == [kind |-> "label", text |-> "", num |-> label]

AND == Lit(" and ")

OR == Lit(" or ")

KEYWORD_EQ == Lit(" contains ")

\* The payloads: the bounds and label lists of the unit tests, and empty ones.
YqlDateFilters ==
    [lower_bound : {<<>>, <<3661>>}, upper_bound : {<<>>, <<1107309722>>}]

YqlLabelFilters ==
    [include : {<<>>, <<12, 5>>, <<7>>}, exclude : {<<>>, <<3>>, <<1, 321>>}]

YqlPayloads ==
    [publication_date : YqlDateFilters, authors : YqlLabelFilters,
     tags : YqlLabelFilters]

\* k and ef as bench passes them: assert!(k <= ef)
YqlLimits == {[k |-> 10, ef |-> 22], [k |-> 10, ef |-> 10]}

\* Both bounds are needed for a range clause.
has_both_bounds(filter) == filter.lower_bound # <<>> /\ filter.upper_bound # <<>>

\* filter.lower_bound.is_some() || filter.upper_bound.is_some()
has_bound(filter) == filter.lower_bound # <<>> \/ filter.upper_bound # <<>>

\* bound.map_or_else(|| default.into(), |bound| bound.timestamp().to_string())
bound_or(bound, default) == IF bound = <<>> THEN Lit(default) ELSE Num(bound[1])

yql_append_date_range(query, field, filter) ==
    IF has_bound(filter)
    THEN query \o <<AND, Lit("range("), Lit(field), Lit(", "),
                    bound_or(filter.lower_bound, "-Infinity"), Lit(", "),
                    bound_or(filter.upper_bound, "Infinity"), Lit(")")>>
    ELSE query

\* The loop over &labels.0, append_or being true after the first label.
RECURSIVE or_joined(_, _, _)
or_joined(field, label_list, n) ==
    IF n = 0 THEN <<>>
    ELSE or_joined(field, label_list, n - 1)
            \o (IF n > 1 THEN <<OR>> ELSE <<>>)
            \o <<Lit(field), KEYWORD_EQ, Quoted(label_list[n])>>

yql_append_or_joined_labels(query, field, label_list, negate_group) ==
    IF label_list # <<>>
    THEN query \o <<AND>> \o (IF negate_group THEN <<Lit("!")>> ELSE <<>>)
               \o <<Lit("(")>> \o or_joined(field, label_list, Len(label_list))
               \o <<Lit(")")>>
    ELSE query

yql_append_label_filter(query, field, filter) ==
    yql_append_or_joined_labels(
        yql_append_or_joined_labels(query, field, filter.include, FALSE),
        field, filter.exclude, TRUE)

yql_head(k, ef, return_payload) ==
    <<Lit("select"), IF return_payload THEN Lit(" * ") ELSE Lit(" id "),
      Lit("from content where {hnsw.exploreAdditionalHits:"), Num(ef - k),
      Lit(", targetHits:"), Num(k),
      Lit("}nearestNeighbor(embedding, query_embedding)")>>

\* The "yql" value of the request.
yql_build_query(k, ef, payload, return_payload, use_filter) ==
    IF use_filter
    THEN yql_append_label_filter(
             yql_append_label_filter(
                 yql_append_date_range(yql_head(k, ef, return_payload),
                                       "publication_date", payload.publication_date),
                 "authors", payload.authors),
             "tags", payload.tags)
    ELSE yql_head(k, ef, return_payload)

YqlIdle ==
    /\ yqlPc = "idle"
    /\ yqlInput = [k |-> 0, ef |-> 0, return_payload |-> FALSE,
                   use_filter |-> FALSE,
                   payload |-> [publication_date |->
                                    [lower_bound |-> <<>>, upper_bound |-> <<>>],
                                authors |-> [include |-> <<>>, exclude |-> <<>>],
                                tags |-> [include |-> <<>>, exclude |-> <<>>]]]
    /\ yql = <<>>

YqlInit ==
    /\ yqlPc = "start"
    /\ \E limits \in YqlLimits, payload \in YqlPayloads,
          return_payload \in BOOLEAN, use_filter \in BOOLEAN :
          yqlInput = [k |-> limits.k, ef |-> limits.ef,
                      return_payload |-> return_payload,
                      use_filter |-> use_filter, payload |-> payload]
    /\ yql = <<>>

YqlBuildQuery ==
    /\ yqlPc = "start"
    /\ yql' = yql_build_query(yqlInput.k, yqlInput.ef, yqlInput.payload,
                              yqlInput.return_payload, yqlInput.use_filter)
    /\ yqlPc' = "built"
    /\ UNCHANGED yqlInput
    /\ UNCHANGED yqlOthers

YqlNext == YqlBuildQuery

\* The query cut at its " and " pieces: the head and the filter clauses.
RECURSIVE SplitAtAnd(_, _, _)
SplitAtAnd(pieces, n, current) ==
    IF n > Len(pieces) THEN <<current>>
    ELSE IF pieces[n] = AND
    THEN <<current>> \o SplitAtAnd(pieces, n + 1, <<>>)
    ELSE SplitAtAnd(pieces, n + 1, Append(current, pieces[n]))

YqlClauses == SplitAtAnd(yql, 1, <<>>)

\* The clauses as the claim words them.
RangeClause(filter) ==
    <<Lit("range("), Lit("publication_date"), Lit(", "),
      IF filter.lower_bound = <<>> THEN Lit("-Infinity")
      ELSE Num(filter.lower_bound[1]),
      Lit(", "),
      IF filter.upper_bound = <<>> THEN Lit("Infinity")
      ELSE Num(filter.upper_bound[1]),
      Lit(")")>>

RECURSIVE Joined(_, _)
Joined(field, label_list) ==
    IF Len(label_list) = 1 THEN <<Lit(field), KEYWORD_EQ, Quoted(label_list[1])>>
    ELSE <<Lit(field), KEYWORD_EQ, Quoted(label_list[1])>> \o <<OR>>
            \o Joined(field, Tail(label_list))

IncludeClause(field, label_list) ==
    <<Lit("(")>> \o Joined(field, label_list) \o <<Lit(")")>>

ExcludeClause(field, label_list) ==
    <<Lit("!"), Lit("(")>> \o Joined(field, label_list) \o <<Lit(")")>>

LabelClauses(field, filter) ==
    (IF filter.include # <<>> THEN <<IncludeClause(field, filter.include)>> ELSE <<>>)
    \o (IF filter.exclude # <<>> THEN <<ExcludeClause(field, filter.exclude)>> ELSE <<>>)

FilterClauses(payload) ==
    (IF payload.publication_date.lower_bound # <<>>
          \/ payload.publication_date.upper_bound # <<>>
     THEN <<RangeClause(payload.publication_date)>> ELSE <<>>)
    \o LabelClauses("authors", payload.authors)
    \o LabelClauses("tags", payload.tags)

EmptyPayload(payload) ==
    /\ payload.publication_date.lower_bound = <<>>
    /\ payload.publication_date.upper_bound = <<>>
    /\ \A f \in {"authors", "tags"} :
          payload[f].include = <<>> /\ payload[f].exclude = <<>>

\* C24: the built query is the head, with exploreAdditionalHits = ef - k
\* and targetHits = k, followed, when use_filter is true, by the clauses
\* for date, authors and tags in that order: a range clause iff a bound is
\* present, an include clause iff the include list is non-empty and a
\* negated clause iff the exclude list is non-empty; and by no clause when
\* use_filter is false or the payload is all empty.
C24_VespaQueryBuilding ==
    yqlPc = "built" =>
        /\ Head(YqlClauses)[4] = Num(yqlInput.ef - yqlInput.k)
        /\ Head(YqlClauses)[6] = Num(yqlInput.k)
        /\ Head(YqlClauses) =
              yql_head(yqlInput.k, yqlInput.ef, yqlInput.return_payload)
        /\ yqlInput.use_filter =>
              Tail(YqlClauses) = FilterClauses(yqlInput.payload)
        /\ (~yqlInput.use_filter \/ EmptyPayload(yqlInput.payload)) =>
              Tail(YqlClauses) = <<>>

\* C24 witness: the unit test's query with all five filter clauses.
C24_Witness ==
    /\ yqlPc = "built"
    /\ yqlInput.use_filter
    /\ yqlInput.k = 10 /\ yqlInput.ef = 22
    /\ yqlInput.payload.authors = [include |-> <<12, 5>>, exclude |-> <<3>>]
    /\ yqlInput.payload.tags = [include |-> <<7>>, exclude |-> <<1, 321>>]
    /\ Len(YqlClauses) = 6
    /\ YqlClauses[2] = <<Lit("range("), Lit("publication_date"), Lit(", "),
                         Num(3661), Lit(", "), Num(1107309722), Lit(")")>>
    /\ YqlClauses[4] = <<Lit("!"), Lit("("), Lit("authors"), KEYWORD_EQ,
                         Quoted(3), Lit(")")>>

(***************************************************************************)
(* distribution/range.rs: the parameters of the normal distribution that   *)
(* RangeDistributionBuilder::build hands to Normal::new(mean, std_dev).    *)
(***************************************************************************)

\* Normal::new(mean, std2): the distribution's mean, in 1/Scale, and its
\* standard deviation, which is the second argument, in 1/Scale^2.
normal_new(range_min, range_max, b) ==
    [mean |-> normal_mean(range_min, range_max, b),
     std_dev |-> normal_std2(range_min, range_max, b)]

\* The given percentage of the range width, in 1/Scale and in 1/Scale^2.
PercentOfWidth(range_min, range_max, percent) == (range_max - range_min) * percent

\* C25 as stated: the normal distribution of a built sampler has mean
\* mean * (max - min) and standard deviation std * (max - min).
C25_NormalParameters ==
    (rPc = "ready" /\ rBuilder.kind = "normal") =>
        /\ normal_new(rMin, rMax, rBuilder).mean
              = PercentOfWidth(rMin, rMax, rBuilder.mean)
        /\ normal_new(rMin, rMax, rBuilder).std_dev
              = PercentOfWidth(rMin, rMax, rBuilder.std) * Scale

\* What holds instead: the standard deviation handed over is the square of
\* the percentage of the width.
NormalStdIsSquared ==
    (rPc = "ready" /\ rBuilder.kind = "normal") =>
        /\ normal_new(rMin, rMax, rBuilder).mean
              = PercentOfWidth(rMin, rMax, rBuilder.mean)
        /\ normal_new(rMin, rMax, rBuilder).std_dev
              = PercentOfWidth(rMin, rMax, rBuilder.std)
                  * PercentOfWidth(rMin, rMax, rBuilder.std)

(***************************************************************************)
(* benchmarks/query_throughput.rs: the recall log of a whole trial, held   *)
(* against the queries that returned Ok in each iteration.                 *)
(***************************************************************************)

\* How often the line holds an entry of query idx.
EntriesOf(line, idx) == Cardinality({i \in 1..Len(line) : line[i][1] = idx})

\* The line holds every query that returned Ok in iteration it exactly
\* once, with the dataset indices the database found for it.
LineOfIteration(line, it) ==
    /\ Len(line) = qparams.number_of_tasks * qparams.queries_per_task
    /\ \A idx \in PoolIndices(MaxPool) : EntriesOf(line, idx) = okQueries[it][idx]
    /\ \A i \in 1..Len(line) : line[i] = <<line[i][1], DbHits(line[i][1])>>

ingestion_parameters == [m |-> 16, ef_construct |-> 100]

QueryParameters(k, ef, fetch_payload, number_of_tasks, queries_per_task, use_filters) ==
    [k |-> k, ef |-> ef, fetch_payload |-> fetch_payload,
     number_of_tasks |-> number_of_tasks,
     queries_per_task |-> queries_per_task, use_filters |-> use_filters]

\* for k in [10, 50, 100] { .. ef: k .. }
TrialsEfK(ks) ==
    [i \in 1..Len(ks) |-> QueryParameters(ks[i], ks[i], FALSE, 5, 10, TRUE)]

\* for number_of_tasks in [5, 10, 20] { .. }
TrialsTasks(tasks) ==
    [i \in 1..Len(tasks) |-> QueryParameters(10, 100, FALSE, tasks[i], 1, TRUE)]

\* for k in [5, 25, 50] { .. ef: 50 .. }
TrialsEf50(ks) ==
    [i \in 1..Len(ks) |-> QueryParameters(ks[i], 50, FALSE, 5, 10, TRUE)]

\* The calls of bench in benchmark(), in order.
Trials ==
    <<QueryParameters(10, 10, FALSE, 5, 10, FALSE),
      QueryParameters(10, 200, FALSE, 5, 10, FALSE)>>
    \o TrialsEfK(<<10, 50, 100>>)
    \o <<QueryParameters(100, 100, TRUE, 5, 10, TRUE),
         QueryParameters(10, 100, FALSE, 5, 10, TRUE)>>
    \o TrialsTasks(<<5, 10, 20>>)
    \o TrialsEf50(<<5, 25, 50>>)

\* Display for IngestionParameters: "{m}-{ef_construct}"
ingestion_display(iparams) == <<Num(iparams.m), Lit("-"), Num(iparams.ef_construct)>>

\* Display for QueryParameters:
\* "{k}-{ef}{fetch_payload}{use_filters}-{number_of_tasks}-{queries_per_task}"
query_display(qp) ==
    <<Num(qp.k), Lit("-"), Num(qp.ef),
      Lit(IF qp.fetch_payload THEN "P" ELSE "p"),
      Lit(IF qp.use_filters THEN "F" ELSE "f"),
      Lit("-"), Num(qp.number_of_tasks), Lit("-"), Num(qp.queries_per_task)>>

\* format!("{iparams}_{qparams}")
bench_id(iparams, qp) == ingestion_display(iparams) \o <<Lit("_")>> \o query_display(qp)

TrialId(n) == bench_id(ingestion_parameters, Trials[n])

SessionFile(id, name) == [exists |-> <<id, name>> \in sesFiles]

SessionIdle ==
    /\ sesPc = "idle"
    /\ sesTrial = 0
    /\ sesFiles = {}
    /\ sesWriter = "none"
    /\ sesFailedOn = <<>>

\* benchmark() has made the query_throughput sub-directory of a new run.
SessionInit ==
    /\ sesPc = "between"
    /\ sesTrial = 0
    /\ sesFiles = {}
    /\ sesWriter = "none"
    /\ sesFailedOn = <<>>

\* bench is called for the next trial: sub_writer (create_dir_all) makes
\* or reuses the directory, the scanner starts, writer_task is spawned.
StartTrial ==
    /\ sesPc = "between"
    /\ sesTrial < Len(Trials)
    /\ sesTrial' = sesTrial + 1
    /\ sesPc' = "running"
    /\ sesWriter' = "spawned"
    /\ UNCHANGED <<sesFiles, sesFailedOn>>
    /\ UNCHANGED sessionOthers

\* The head of writer_task: returns at once without recall statistics,
\* else write_file("recall_data.jsonl", ..).
SessionWriterStart ==
    /\ sesWriter = "spawned"
    /\ IF ~enable_recall_stats(Trials[sesTrial].use_filters)
       THEN sesWriter' = "ok" /\ sesFiles' = sesFiles
       ELSE IF create_new_opens(SessionFile(TrialId(sesTrial), "recall_data.jsonl"))
       THEN /\ sesFiles' = sesFiles \cup {<<TrialId(sesTrial), "recall_data.jsonl">>}
            /\ sesWriter' = "receiving"
       ELSE sesWriter' = "err" /\ sesFiles' = sesFiles
    /\ UNCHANGED <<sesPc, sesTrial, sesFailedOn>>
    /\ UNCHANGED sessionOthers

\* bench_with_input returns: the iterations ran and the sender is dropped;
\* or an iteration panics, on a query that failed or, with recall
\* statistics and a writer that ended in an error, on a send that failed.
TrialMeasured ==
    /\ sesPc = "running"
    /\ \E queries_ok \in BOOLEAN :
          sesPc' = IF ~queries_ok
                       \/ (enable_recall_stats(Trials[sesTrial].use_filters)
                             /\ sesWriter = "err")
                    THEN "panicked" ELSE "measured"
    /\ UNCHANGED <<sesTrial, sesFiles, sesWriter, sesFailedOn>>
    /\ UNCHANGED sessionOthers

\* writer_task's recv() yields None after the sender is dropped.
SessionWriterEnd ==
    /\ sesWriter = "receiving"
    /\ sesPc \in {"measured", "awaiting_writer"}
    /\ sesWriter' = "ok"
    /\ UNCHANGED <<sesPc, sesTrial, sesFiles, sesFailedOn>>
    /\ UNCHANGED sessionOthers

\* writer2.write_file("docker_stats.json", &stats)?
WriteDockerStats ==
    /\ sesPc = "measured"
    /\ IF create_new_opens(SessionFile(TrialId(sesTrial), "docker_stats.json"))
       THEN /\ sesFiles' = sesFiles \cup {<<TrialId(sesTrial), "docker_stats.json">>}
            /\ sesPc' = "awaiting_writer"
            /\ sesFailedOn' = sesFailedOn
       ELSE /\ sesFiles' = sesFiles
            /\ sesPc' = "failed"
            /\ sesFailedOn' = <<TrialId(sesTrial), "docker_stats.json">>
    /\ UNCHANGED <<sesTrial, sesWriter>>
    /\ UNCHANGED sessionOthers

\* rt.block_on(writer_task)??; Ok(()) and on to the next call of bench, or
\* to the Ok(()) of benchmark().
JoinWriter ==
    /\ sesPc = "awaiting_writer"
    /\ sesWriter \in {"ok", "err"}
    /\ IF sesWriter = "ok"
       THEN /\ sesPc' = IF sesTrial < Len(Trials) THEN "between" ELSE "complete"
            /\ sesFailedOn' = sesFailedOn
       ELSE /\ sesPc' = "failed"
            /\ sesFailedOn' = <<TrialId(sesTrial), "recall_data.jsonl">>
    /\ UNCHANGED <<sesTrial, sesFiles, sesWriter>>
    /\ UNCHANGED sessionOthers

SessionNext ==
    \/ StartTrial
    \/ SessionWriterStart
    \/ TrialMeasured
    \/ SessionWriterEnd
    \/ WriteDockerStats
    \/ JoinWriter

\* C27 as stated: the trials bench was called for have pairwise distinct
\* identifiers, and no trial fails on a file that an earlier trial wrote.
C27_DistinctTrialIds ==
    /\ \A i, j \in 1..sesTrial : i # j => TrialId(i) # TrialId(j)
    /\ sesPc # "failed"
    /\ sesFailedOn = <<>>

\* What holds instead: the first twelve trials have distinct identifiers
\* and complete; the thirteenth has the identifier of the fourth, and ends
\* the session at docker_stats.json, so benchmark() never returns Ok(()).
SessionEndsAtRepeatedId ==
    /\ \A i, j \in 1..Min(sesTrial, Len(Trials) - 1) : i # j => TrialId(i) # TrialId(j)
    /\ TrialId(Len(Trials)) = TrialId(4)
    /\ sesPc # "complete"
    /\ sesPc = "failed" =>
          /\ sesTrial = Len(Trials)
          /\ sesFailedOn = <<TrialId(4), "docker_stats.json">>

(***************************************************************************)
(* distribution/ingestion.rs: ingest_database.  The database is any        *)
(* PrepareVectorDatabase: each of its calls returns Ok or Err.             *)
(***************************************************************************)

\* Documents in the dataset.
MaxDocs == 201

BATCH_SIZE == 100

\* A loop that goes on while a whole batch is left.
peek_full_batch(next, nr_documents) == next + BATCH_SIZE <= nr_documents

\* vectors.peek().is_some()
peek_is_some(next, nr_documents) == next < nr_documents

\* vectors.by_ref().take(BATCH_SIZE).map(|(idx, ..)| IngestionInfo { id:
\* index_to_fake_uuid(idx as _), .. }): the documents of the batch, as
\* [idx, id].
take_batch(next, nr_documents) ==
    [i \in 1..Min(BATCH_SIZE, nr_documents - next) |->
        [idx |-> next + i - 1,
         id |-> index_to_fake_uuid(<<0, 0, 0, next + i - 1>>)]]

Call(op, batch, ok) == [op |-> op, batch |-> batch, ok |-> ok]

IngestIdle ==
    /\ ingPc = "idle"
    /\ ingDocs = 0
    /\ ingNeeds = "unknown"
    /\ ingNext = 0
    /\ ingCalls = <<>>

IngestInit ==
    /\ ingPc = "start"
    /\ ingDocs \in 0..MaxDocs
    /\ ingNeeds = "unknown"
    /\ ingNext = 0
    /\ ingCalls = <<>>

\* sub_writer, paths.json, database.initialize().await?, and the return
\* when no ingestion is needed.
Initialize ==
    /\ ingPc = "start"
    /\ \E answer \in {"err", "yes", "no"} :
          /\ ingNeeds' = IF answer = "err" THEN ingNeeds ELSE answer
          /\ ingPc' = CASE answer = "err" -> "failed"
                        [] answer = "no" -> "returned"
                        [] answer = "yes" -> "loading"
    /\ UNCHANGED <<ingDocs, ingNext, ingCalls>>
    /\ UNCHANGED ingestOthers

\* load_ingestion_data(paths)?, write_file("source.json", ..)?
LoadIngestionData ==
    /\ ingPc = "loading"
    /\ \E ok \in BOOLEAN : ingPc' = IF ok THEN "loaded" ELSE "failed"
    /\ UNCHANGED <<ingDocs, ingNeeds, ingNext, ingCalls>>
    /\ UNCHANGED ingestOthers

\* database.prepare_mass_ingestion().await?
PrepareMassIngestion ==
    /\ ingPc = "loaded"
    /\ \E ok \in BOOLEAN :
          /\ ingCalls' = Append(ingCalls, Call("prepare_mass_ingestion", <<>>, ok))
          /\ ingPc' = IF ok THEN "ingesting" ELSE "failed"
    /\ UNCHANGED <<ingDocs, ingNeeds, ingNext>>
    /\ UNCHANGED ingestOthers

\* One round of `while vectors.peek().is_some()`: database.ingest_batch(..)
IngestBatch ==
    /\ ingPc = "ingesting"
    /\ peek_is_some(ingNext, ingDocs)
    /\ \E ok \in BOOLEAN :
          /\ ingCalls' = Append(ingCalls,
                                Call("ingest_batch", take_batch(ingNext, ingDocs), ok))
          /\ ingPc' = IF ok THEN "ingesting" ELSE "failed"
    /\ ingNext' = ingNext + Len(take_batch(ingNext, ingDocs))
    /\ UNCHANGED <<ingDocs, ingNeeds>>
    /\ UNCHANGED ingestOthers

\* database.finish_mass_ingestion(Duration::from_secs(900)).await?
FinishMassIngestion ==
    /\ ingPc = "ingesting"
    /\ ~peek_is_some(ingNext, ingDocs)
    /\ \E ok \in BOOLEAN :
          /\ ingCalls' = Append(ingCalls, Call("finish_mass_ingestion", <<>>, ok))
          /\ ingPc' = IF ok THEN "finished" ELSE "failed"
    /\ UNCHANGED <<ingDocs, ingNeeds, ingNext>>
    /\ UNCHANGED ingestOthers

\* writer.write_file("times.json", ..)?; Ok(())
WriteTimes ==
    /\ ingPc = "finished"
    /\ \E ok \in BOOLEAN :
          /\ ingCalls' = Append(ingCalls, Call("write times.json", <<>>, ok))
          /\ ingPc' = IF ok THEN "returned" ELSE "failed"
    /\ UNCHANGED <<ingDocs, ingNeeds, ingNext>>
    /\ UNCHANGED ingestOthers

IngestNext ==
    \/ Initialize
    \/ LoadIngestionData
    \/ PrepareMassIngestion
    \/ IngestBatch
    \/ FinishMassIngestion
    \/ WriteTimes

\* The batches of the protocol for n documents: the j-th holds the indices
\* 100 (j - 1) .. min(100 j, n) - 1 in ascending order.
ProtocolBatches(n) ==
    [j \in 1..((n + 99) \div 100) |->
        [i \in 1..(Min(100 * j, n) - 100 * (j - 1)) |-> 100 * (j - 1) + i - 1]]

\* The protocol for n documents: what is called, and with which indices.
Protocol(n) ==
    <<[op |-> "prepare_mass_ingestion", indices |-> <<>>]>>
    \o [j \in 1..Len(ProtocolBatches(n)) |->
           [op |-> "ingest_batch", indices |-> ProtocolBatches(n)[j]]]
    \o <<[op |-> "finish_mass_ingestion", indices |-> <<>>],
         [op |-> "write times.json", indices |-> <<>>]>>

CallIndices(call) == [i \in 1..Len(call.batch) |-> call.batch[i].idx]

\* C28: the calls made so far are a beginning of the protocol: prepare
\* once, then ingest_batch on consecutive non-empty batches of at most 100
\* documents in ascending order of index, each id the fake uuid of its
\* index, then finish once, then the write of times.json; every call but
\* the last returned Ok, and after a call that failed nothing follows;
\* a run that returned Ok after needs_ingestion made the whole protocol,
\* covering the indices 0..N-1 exactly once; without needs_ingestion
\* nothing is called.
C28_IngestionProtocol ==
    /\ ingNeeds # "yes" => ingCalls = <<>>
    /\ Len(ingCalls) <= Len(Protocol(ingDocs))
    /\ \A c \in 1..Len(ingCalls) :
          /\ ingCalls[c].op = Protocol(ingDocs)[c].op
          /\ CallIndices(ingCalls[c]) = Protocol(ingDocs)[c].indices
          /\ \A i \in 1..Len(ingCalls[c].batch) :
                /\ ingCalls[c].batch[i].id
                      = index_to_fake_uuid(<<0, 0, 0, ingCalls[c].batch[i].idx>>)
                /\ fake_uuid_to_index(ingCalls[c].batch[i].id)
                      = <<0, 0, 0, ingCalls[c].batch[i].idx>>
          /\ ingCalls[c].op = "ingest_batch" =>
                Len(ingCalls[c].batch) \in 1..100
          /\ c < Len(ingCalls) => ingCalls[c].ok
    /\ (ingCalls # <<>> /\ ~ingCalls[Len(ingCalls)].ok) => ingPc = "failed"
    /\ (ingPc = "returned" /\ ingNeeds = "yes") =>
          /\ Len(ingCalls) = Len(Protocol(ingDocs))
          /\ ingCalls[Len(ingCalls)].ok
          /\ ingNext = ingDocs

\* C28 witness: 201 documents were ingested in batches of 100, 100 and 1
\* and times.json was written.
C28_Witness ==
    /\ ingPc = "returned"
    /\ ingNeeds = "yes"
    /\ ingDocs = 201
    /\ Len(ingCalls) = 6
    /\ Len(ingCalls[2].batch) = 100
    /\ Len(ingCalls[4].batch) = 1
    /\ ingCalls[4].batch[1].idx = 200
    /\ ingCalls[6].op = "write times.json"

(***************************************************************************)
(* docker.rs: the extremes a Stat keeps, held against the samples the scan *)
(* folded into it.                                                         *)
(***************************************************************************)
StatNames == {"memory", "cpu", "block_io", "net_io"}

SameValue(a, b) == ValueLeq(a, b) /\ ValueLeq(b, a)

\* v is the largest (smallest) of the values.
IsLargest(v, values) ==
    /\ \E i \in 1..Len(values) : SameValue(values[i], v)
    /\ \A i \in 1..Len(values) : ValueLeq(values[i], v)

IsSmallest(v, values) ==
    /\ \E i \in 1..Len(values) : SameValue(values[i], v)
    /\ \A i \in 1..Len(values) : ValueLeq(v, values[i])

\* C29 as stated: once samples were folded in, a Stat's max is the largest
\* and its min the smallest of them, and the four Stats of the aggregate
\* have received the same number of samples.
C29_StatExtremes ==
    /\ \A f \in StatNames :
          stats[f].dist # <<>> =>
              /\ IsLargest(stats[f].max, stats[f].dist)
              /\ IsSmallest(stats[f].min, stats[f].dist)
    /\ \A f, g \in StatNames : Len(stats[f].dist) = Len(stats[g].dist)

\* What holds instead: max and min are the extremes of the samples and the
\* 0.0 that Stat::default() starts them with, so the min of samples that
\* are all positive is 0; the four Stats have the same number of samples.
StatExtremesWithDefault ==
    /\ \A f \in StatNames :
          /\ IsLargest(stats[f].max, <<ZeroValue>> \o stats[f].dist)
          /\ IsSmallest(stats[f].min, <<ZeroValue>> \o stats[f].dist)
    /\ \A f, g \in StatNames : Len(stats[f].dist) = Len(stats[g].dist)

(***************************************************************************)
(* resources.rs: create_next_dir and ResourceWriter::new.  A directory     *)
(* name is a sequence of characters.                                       *)
(***************************************************************************)

\* Calls of ResourceWriter::new on one scope.
MaxRuns == 12

\* The scopes of the report directory: the benches run in any order.
Scopes == {"qdrant", "vespa"}

HexDigits == <<"0", "1", "2", "3", "4", "5", "6", "7", "8", "9",
               "a", "b", "c", "d", "e", "f">>

\* {:x}: the digits of n in base 16, lower case.
RECURSIVE lower_hex(_)
lower_hex(n) ==
    IF n < 16 THEN <<HexDigits[n + 1]>>
    ELSE Append(lower_hex(n \div 16), HexDigits[(n % 16) + 1])

\* {:0>4}: filled with '0' on the left up to a width of 4.
RECURSIVE fill_left(_)
fill_left(text) == IF Len(text) >= 4 THEN text ELSE fill_left(<<"0">> \o text)

\* format!("{:0>4x}", n)
format_run_dir(n) == fill_left(lower_hex(n))

\* The value of decimal digits, most significant first.
RECURSIVE decimal_value(_)
decimal_value(text) ==
    IF text = <<>> THEN 0
    ELSE 10 * decimal_value(SubSeq(text, 1, Len(text) - 1))
            + digit_value(text[Len(text)])

\* name.parse::<usize>(): decimal digits only, at least one.
parse_usize(name) ==
    IF name # <<>> /\ \A i \in 1..Len(name) : name[i] \in DecDigits
    THEN [ok |-> TRUE, value |-> decimal_value(name)]
    ELSE [ok |-> FALSE, value |-> 0]

\* The loop over fs::read_dir: max over the parsed names, from -1; an
\* entry that does not parse ends create_next_dir with its error.
max_index(entries) ==
    IF \E name \in entries : ~parse_usize(name).ok
    THEN [ok |-> FALSE, value |-> 0 - 1]
    ELSE [ok |-> TRUE,
          value |-> IF entries = {} THEN 0 - 1
                    ELSE CHOOSE v \in {parse_usize(name).value : name \in entries} :
                             \A name \in entries : parse_usize(name).value <= v]

\* create_next_dir: the name of the directory made, or the error.
create_next_dir(entries) ==
    IF max_index(entries).ok
    THEN [ok |-> TRUE, name |-> format_run_dir(max_index(entries).value + 1)]
    ELSE [ok |-> FALSE, name |-> <<>>]

NoRun == [ok |-> TRUE, name |-> <<>>]

RunDirIdle ==
    /\ rdEntries = [s \in Scopes |-> {}]
    /\ rdRuns = [s \in Scopes |-> 0 - 1]
    /\ rdLast = [s \in Scopes |-> NoRun]

\* An empty report directory.
RunDirInit ==
    /\ rdEntries = [s \in Scopes |-> {}]
    /\ rdRuns = [s \in Scopes |-> 0]
    /\ rdLast = [s \in Scopes |-> NoRun]

\* ResourceWriter::new(out_dir, [scope]): create_next_dir, then open.json
\* is written into the directory, create_new, which fails in a directory
\* that an earlier run made.
ResourceWriterNew ==
    \E s \in Scopes :
        /\ rdRuns[s] >= 0
        /\ rdRuns[s] < MaxRuns
        /\ rdRuns' = [rdRuns EXCEPT ![s] = @ + 1]
        /\ LET made == create_next_dir(rdEntries[s])
           IN  IF made.ok
               THEN /\ rdEntries' = [rdEntries EXCEPT ![s] = @ \cup {made.name}]
                    /\ rdLast' = [rdLast EXCEPT ![s] =
                                     [ok |-> made.name \notin rdEntries[s],
                                      name |-> made.name]]
               ELSE /\ rdEntries' = rdEntries
                    /\ rdLast' = [rdLast EXCEPT ![s] = made]
        /\ UNCHANGED rundirOthers

RunDirNext == ResourceWriterNew

\* C30 as stated: every call of ResourceWriter::new on a scope that was
\* empty at first succeeds and makes a directory that was not there; after
\* n calls the scope holds n directories, the last one made with the index
\* n - 1, one greater than the highest before it.
C30_RunDirAllocation ==
    \A s \in Scopes :
        rdRuns[s] >= 1 =>
            /\ rdLast[s].ok
            /\ Cardinality(rdEntries[s]) = rdRuns[s]
            /\ rdLast[s].name = format_run_dir(rdRuns[s] - 1)

\* What holds instead: the first eleven calls succeed and make the
\* directories 0000 .. 0009 and 000a; every later call fails on the name
\* 000a, which is no decimal number, and makes nothing.
RunDirStuckAtHex ==
    \A s \in Scopes :
        /\ (rdRuns[s] >= 1 /\ rdRuns[s] <= 11) =>
              /\ rdLast[s].ok
              /\ rdLast[s].name = format_run_dir(rdRuns[s] - 1)
              /\ Cardinality(rdEntries[s]) = rdRuns[s]
        /\ rdRuns[s] = 11 => rdLast[s].name = <<"0", "0", "0", "a">>
        /\ rdRuns[s] > 11 =>
              /\ ~rdLast[s].ok
              /\ Cardinality(rdEntries[s]) = 11

(***************************************************************************)
(* Specifications.                                                         *)
(***************************************************************************)
\* Every component but the named one is idle.
IdleExcept(component) ==
    /\ component = "ids" \/ IdsIdle
    /\ component = "label" \/ LabIdle
    /\ component = "range" \/ RngIdle
    /\ component = "date" \/ DateIdle
    /\ component = "percentage" \/ PctIdle
    /\ component = "generation" \/ GenIdle
    /\ component = "bench" \/ BenchIdle
    /\ component = "mem" \/ MemIdle
    /\ component = "scan" \/ ScanIdle
    /\ component = "score" \/ ScoreIdle
    /\ component = "files" \/ FsIdle
    /\ component = "welford" \/ WfIdle
    /\ component = "fold" \/ FoldIdle
    /\ component = "adapter" \/ AdapterIdle
    /\ component = "report" \/ ReportIdle
    /\ component = "yql" \/ YqlIdle
    /\ component = "session" \/ SessionIdle
    /\ component = "ingest" \/ IngestIdle
    /\ component = "rundir" \/ RunDirIdle

InitIds == IdsInit /\ IdleExcept("ids")

SpecIds == InitIds /\ [][IdsNext]_vars

InitLabel == LabInit /\ IdleExcept("label")

SpecLabel == InitLabel /\ [][LabNext]_vars

InitUnique == UniqueInit /\ IdleExcept("label")

SpecUnique == InitUnique /\ [][UniqueNext]_vars

SpecUniqueFair == SpecUnique /\ UniqueFairness

InitRange == RngInit /\ IdleExcept("range")

SpecRange == InitRange /\ [][RngNext]_vars

SpecRangeFair == SpecRange /\ RngFairness

InitDate == DateInit /\ IdleExcept("date")

InitPct == PctInit /\ IdleExcept("percentage")

SpecPct == InitPct /\ [][PctNext]_vars

InitGen == GenInit /\ IdleExcept("generation")

SpecGen == InitGen /\ [][GenNext]_vars

InitBench == BenchInit /\ IdleExcept("bench")

SpecBench == InitBench /\ [][BenchNext]_vars

InitMem == MemInit /\ IdleExcept("mem")

SpecMem == InitMem /\ [][MemNext]_vars

InitScan == ScanInit /\ IdleExcept("scan")

SpecScan == InitScan /\ [][ScanNext]_vars

SpecScanFair == SpecScan /\ ScanFairness

InitScore == ScoreInit /\ IdleExcept("score")

SpecScore == InitScore /\ [][ScoreNext]_vars

InitFs == FsInit /\ IdleExcept("files")

SpecFs == InitFs /\ [][FsNext]_vars

InitWf == WfInit /\ IdleExcept("welford")

SpecWf == InitWf /\ [][WfNext]_vars

InitFold == FoldInit /\ IdleExcept("fold")

SpecFold == InitFold /\ [][FoldNext]_vars

InitAdapter == AdapterInit /\ IdleExcept("adapter")

SpecAdapter == InitAdapter /\ [][AdapterNext]_vars

InitReport == ReportInit /\ IdleExcept("report")

SpecReport == InitReport /\ [][ReportNext]_vars

InitYql == YqlInit /\ IdleExcept("yql")

SpecYql == InitYql /\ [][YqlNext]_vars

InitSession == SessionInit /\ IdleExcept("session")

SpecSession == InitSession /\ [][SessionNext]_vars

InitIngest == IngestInit /\ IdleExcept("ingest")

SpecIngest == InitIngest /\ [][IngestNext]_vars

InitRunDir == RunDirInit /\ IdleExcept("rundir")

SpecRunDir == InitRunDir /\ [][RunDirNext]_vars

SpecDate == InitDate /\ [][DateNext]_vars

\* The range samplers and the date populations built on them.
InitRangeDate ==
    \/ InitRange
    \/ InitDate

RangeDateNext ==
    \/ RngNext
    \/ DateNext

SpecRangeDate == InitRangeDate /\ [][RangeDateNext]_vars

Init ==
    \/ InitIds
    \/ InitLabel
    \/ InitRange
    \/ InitDate
    \/ InitPct
    \/ InitGen
    \/ InitBench
    \/ InitMem
    \/ InitScan
    \/ InitScore
    \/ InitFs
    \/ InitWf
    \/ InitFold
    \/ InitAdapter
    \/ InitReport
    \/ InitYql
    \/ InitSession
    \/ InitIngest
    \/ InitRunDir

Next ==
    \/ IdsNext
    \/ LabNext
    \/ RngNext
    \/ DateNext
    \/ PctNext
    \/ GenNext
    \/ BenchNext
    \/ MemNext
    \/ ScanNext
    \/ ScoreNext
    \/ FsNext
    \/ WfNext
    \/ FoldNext
    \/ AdapterNext
    \/ ReportNext
    \/ YqlNext
    \/ SessionNext
    \/ IngestNext
    \/ RunDirNext

Spec == Init /\ [][Next]_vars

=============================================================================
